---- MODULE Spec2Model ----
(***************************************************************************)
(* The in-memory mock API of the storefront, src/src/shared/lib/api/mock.ts *)
(* (the file holds the module text twice; the line numbers used here are    *)
(* those of the second copy, lines 513-1193): the module-level arrays       *)
(* mockUsers, mockProducts, mockCarts, mockOrders, the currentUser pointer, *)
(* and the handlers of mockAuthApi, mockProductsApi, mockCartApi and        *)
(* mockOrdersApi.                                                           *)
(*                                                                         *)
(* Every handler is `await delay()` followed by a body that contains no     *)
(* further await, so the body runs to completion on the event loop.  For    *)
(* each handler h the operator hOutcome(args) is that body as a function of *)
(* the state it runs in: the response it resolves with or the error it      *)
(* throws, and the module state it leaves.  The action h(args) commits the  *)
(* outcome.  A claim about what a call returns is therefore a statement     *)
(* about hOutcome in every reachable state.                                 *)
(*                                                                         *)
(* Conventions.  Prices are integers in cents.  Strings that the code only  *)
(* compares are TLA+ strings; strings that the code searches (product name  *)
(* and description) are tuples of one-character strings.  Timestamps and    *)
(* imageUrl are left out: no handler reads them.  generateId() yields a     *)
(* fresh id; ids are only ever compared with ids of the same kind of        *)
(* entity, so freshness is kept by one counter per kind (nextId), and an    *)
(* order item's id is derived from its order's.  inFlight holds the calls   *)
(* that have been made and wait in `await delay()`: every delay is the same *)
(* MOCK_DELAY, so their timers fire, and their bodies run, in the order the *)
(* calls were made.  Of the eighteen seeded                                 *)
(* products the model keeps prod-1 (in stock) and prod-17 (out of stock).   *)
(***************************************************************************)
EXTENDS Integers, Sequences, FiniteSets, TLC

VARIABLES mockUsers, mockProducts, mockCarts, mockOrders, currentUser, nextId,
          inFlight,
          authUser, authLoading, authToken, userData, localStorage, storageEvents,
          location, redirects, providerCart, cartLoading, toast, api

\* The state of the page outside the mock module: AuthProvider (authUser is
\* its `user`, authLoading its `loading`, authToken and userData its two
\* useLocalStorage hooks), the browser's localStorage and the storage events
\* on their way to this tab, the router's location, CartProvider
\* (providerCart is its `cart`, cartLoading its `loading`), the last toast
\* shown, and one mounted useApi/useMutation hook (api).  redirects is not
\* data of the program: it counts the <Navigate> steps taken since the page
\* was loaded or the auth state last changed.
uiVars == <<authUser, authLoading, authToken, userData, localStorage, storageEvents,
            location, redirects, providerCart, cartLoading, toast, api>>

vars == <<mockUsers, mockProducts, mockCarts, mockOrders, currentUser, nextId, inFlight,
          authUser, authLoading, authToken, userData, localStorage, storageEvents,
          location, redirects, providerCart, cartLoading, toast, api>>

\* The state of the module as one value: the four arrays, the current-user
\* pointer and the id counters
State == [mockUsers |-> mockUsers, mockProducts |-> mockProducts,
          mockCarts |-> mockCarts, mockOrders |-> mockOrders,
          currentUser |-> currentUser, nextId |-> nextId]

\* The shared data of a state: everything but the id counters
Shared(s) == [mockUsers |-> s.mockUsers, mockProducts |-> s.mockProducts,
              mockCarts |-> s.mockCarts, mockOrders |-> s.mockOrders,
              currentUser |-> s.currentUser]

(***************************************************************************)
(* Bounds of the model                                                      *)
(***************************************************************************)
\* carts, providerCart lines, orders and products created in a run
MaxCarts == 2
MaxItems == 2
MaxOrders == 1
MaxCreated == 1
\* a providerCart line's quantity stays within -MaxQty..MaxQty
MaxQty == 2
\* calls waiting in their delay at the same time
MaxInFlight == 2

(***************************************************************************)
(* Values                                                                   *)
(***************************************************************************)
\* JavaScript's null / undefined
Null == [null |-> TRUE]

ProductCategory == {"pharmacy", "health", "personal-care"}
OrderStatus == {"pending", "confirmed", "shipped", "delivered", "cancelled"}

UpperCase == <<"A", "B", "C", "D", "E", "F", "G", "H", "I", "J", "K", "L", "M",
               "N", "O", "P", "Q", "R", "S", "T", "U", "V", "W", "X", "Y", "Z">>
LowerCase == <<"a", "b", "c", "d", "e", "f", "g", "h", "i", "j", "k", "l", "m",
               "n", "o", "p", "q", "r", "s", "t", "u", "v", "w", "x", "y", "z">>

\* a search that compares letters as they are
LowerCharKeepsCase(c) == c

\* String.prototype.toLowerCase on one character, and on a string
LowerChar(c) ==
  IF \E i \in 1..Len(UpperCase) : UpperCase[i] = c
  THEN LowerCase[CHOOSE i \in 1..Len(UpperCase) : UpperCase[i] = c]
  ELSE c
toLowerCase(s) == [i \in 1..Len(s) |-> LowerChar(s[i])]

\* String.prototype.includes
includes(s, sub) ==
  \E i \in 0..(Len(s) - Len(sub)) : SubSeq(s, i + 1, i + Len(sub)) = sub

\* Array.prototype.findIndex, 1-based; 0 where JavaScript gives -1
FindIndex(seq, Test(_)) ==
  LET hits == {i \in 1..Len(seq) : Test(seq[i])}
  IN  IF hits = {} THEN 0 ELSE CHOOSE i \in hits : \A j \in hits : i <= j

\* Array.prototype.splice(index, 1)
Splice(seq, index) == SubSeq(seq, 1, index - 1) \o SubSeq(seq, index + 1, Len(seq))

\* { ...old, ...patch }
Spread(old, patch) ==
  [f \in DOMAIN old \cup DOMAIN patch |-> IF f \in DOMAIN patch THEN patch[f] ELSE old[f]]

\* generateId(): the n-th id generated for a kind of entity
generateId(kind, n) == kind \o "-" \o ToString(n)

\* items.reduce((total, item) => total + item.product.price * item.quantity, 0)
RECURSIVE SumItems(_)
SumItems(items) ==
  IF items = <<>> THEN 0
  ELSE SumItems(SubSeq(items, 1, Len(items) - 1))
       + items[Len(items)].product.price * items[Len(items)].quantity

\* What a handler's body does when it runs in state s: ok and data are the
\* response it resolves with (createMockResponse(data)), error is the message
\* it throws, state is the module state it leaves.
Resolved(data, state) == [ok |-> TRUE, error |-> "", data |-> data, state |-> state]

\* throw new Error(message) at a point of the handler where `state` is what
\* has been assigned so far
Thrown(message, state) == [ok |-> FALSE, error |-> message, data |-> Null, state |-> state]

\* a handler's body takes effect on the module state
Effect(outcome) ==
  /\ mockUsers' = outcome.state.mockUsers
  /\ mockProducts' = outcome.state.mockProducts
  /\ mockCarts' = outcome.state.mockCarts
  /\ mockOrders' = outcome.state.mockOrders
  /\ currentUser' = outcome.state.currentUser
  /\ nextId' = outcome.state.nextId

\* a call made while no other call waits: its delay passes and its body runs
Commit(outcome) == Effect(outcome) /\ UNCHANGED inFlight /\ UNCHANGED uiVars

(***************************************************************************)
(* The page as it is constructed: what the components hold before any       *)
(* effect has run, in a browser whose localStorage is empty                 *)
(***************************************************************************)
\* a JavaScript string as a value that can stand where null can
Str(s) == [str |-> s]

\* localStorage with no entry: a function from the keys present to their text
EmptyStorage == [k \in {} |-> ""]

\* useState<ApiState>({ data: null, loading: immediate, error: null }) of a
\* hook mounted with the given options; pc is where its execution stands,
\* attempt the parameter of the running executeWithRetry, calls the number of
\* times the execution has invoked the API function, returned what the last
\* execution returned
ApiMounted(hook, retries, immediate) ==
  [hook |-> hook, retries |-> retries,
   state |-> [data |-> Null, loading |-> immediate, error |-> Null],
   pc |-> "idle", attempt |-> 0, calls |-> 0, returned |-> Null]

InitComponents ==
  /\ authUser = Null
  /\ authLoading = TRUE
  /\ authToken = Null
  /\ userData = Null
  /\ localStorage = EmptyStorage
  /\ storageEvents = <<>>
  /\ location = [pathname |-> "/", state |-> Null]
  /\ redirects = 0
  /\ providerCart = Null
  /\ cartLoading = FALSE
  /\ toast = Null

InitPage == InitComponents /\ api = ApiMounted("useMutation", 0, FALSE)

(***************************************************************************)
(* Seed data                                                                *)
(***************************************************************************)
SeedUsers ==
  << [id |-> "admin-1", email |-> "admin@walgreens.com", role |-> "admin"],
     [id |-> "customer-1", email |-> "customer@example.com", role |-> "customer"] >>

SeedProducts ==
  << [id |-> "prod-1", name |-> <<"A", "c", "e">>, description |-> <<"P", "a", "i", "n">>,
      price |-> 1299, category |-> "pharmacy", inStock |-> TRUE, stockQuantity |-> 100],
     [id |-> "prod-17", name |-> <<"B", "-", "C">>, description |-> <<"E", "n", "e">>,
      price |-> 1999, category |-> "health", inStock |-> FALSE, stockQuantity |-> 0] >>

validPasswords ==
  [e \in {"admin@walgreens.com", "customer@example.com"} |->
     IF e = "admin@walgreens.com" THEN "admin123" ELSE "customer123"]

Init ==
  /\ mockUsers = SeedUsers
  /\ mockProducts = <<SeedProducts[1]>>
  /\ mockCarts = <<>>
  /\ mockOrders = <<>>
  /\ currentUser = Null
  /\ nextId = [cart |-> 1, item |-> 1, order |-> 1, product |-> 1]
  /\ inFlight = <<>>
  /\ InitPage

(***************************************************************************)
(* mockAuthApi                                                              *)
(***************************************************************************)
\* a login that records the user before it checks the password
loginOutcomeEager(s, credentials) ==
  LET idx == FindIndex(s.mockUsers, LAMBDA u : u.email = credentials.email)
      entered == [s EXCEPT !.currentUser = s.mockUsers[idx]]
  IN  IF idx = 0
      THEN Thrown("User not found", s)
      ELSE IF validPasswords[credentials.email] # credentials.password
      THEN Thrown("Invalid credentials", entered)
      ELSE Resolved([user |-> s.mockUsers[idx],
                     token |-> "mock-token-" \o s.mockUsers[idx].id,
                     refreshToken |-> "mock-refresh-" \o s.mockUsers[idx].id],
                    entered)

loginOutcome(s, credentials) ==
  LET idx == FindIndex(s.mockUsers, LAMBDA u : u.email = credentials.email)
  IN  IF idx = 0
      THEN Thrown("User not found", s)
      ELSE IF validPasswords[credentials.email] # credentials.password
      THEN Thrown("Invalid credentials", s)
      ELSE Resolved([user |-> s.mockUsers[idx],
                     token |-> "mock-token-" \o s.mockUsers[idx].id,
                     refreshToken |-> "mock-refresh-" \o s.mockUsers[idx].id],
                    [s EXCEPT !.currentUser = s.mockUsers[idx]])

login(credentials) == Commit(loginOutcome(State, credentials))

\* a logout that insists on a session
logoutOutcomeStrict(s) ==
  IF s.currentUser = Null
  THEN Thrown("No authenticated user", s)
  ELSE Resolved(Null, [s EXCEPT !.currentUser = Null])

logoutOutcome(s) == Resolved(Null, [s EXCEPT !.currentUser = Null])

logout == Commit(logoutOutcome(State))

getCurrentUserOutcome(s) ==
  IF s.currentUser = Null
  THEN Thrown("No authenticated user", s)
  ELSE Resolved(s.currentUser, s)

getCurrentUser == Commit(getCurrentUserOutcome(State))

(***************************************************************************)
(* mockProductsApi                                                          *)
(***************************************************************************)
\* params?.category and params?.search: an absent or empty (falsy) field is
\* not applied
HasParam(params, field) ==
  /\ field \in DOMAIN params
  /\ params[field] # (IF field = "search" THEN <<>> ELSE "")

\* lines 873-885: the list getProducts returns for the catalog `products`
FilterProducts(products, params) ==
  LET byCategory ==
        IF HasParam(params, "category")
        THEN SelectSeq(products, LAMBDA p : p.category = params.category)
        ELSE products
      searchLower == toLowerCase(params.search)
  IN  IF HasParam(params, "search")
      THEN SelectSeq(byCategory,
                     LAMBDA p : \/ includes(toLowerCase(p.name), searchLower)
                                \/ includes(toLowerCase(p.description), searchLower))
      ELSE byCategory

getProductsOutcome(s, params) == Resolved(FilterProducts(s.mockProducts, params), s)

getProducts(params) == Commit(getProductsOutcome(State, params))

getProductOutcome(s, id) ==
  LET idx == FindIndex(s.mockProducts, LAMBDA p : p.id = id)
  IN  IF idx = 0
      THEN Thrown("Product not found", s)
      ELSE Resolved(s.mockProducts[idx], s)

getProduct(id) == Commit(getProductOutcome(State, id))

\* a check that only asks for a session
NotAdminSessionOnly(s) == s.currentUser = Null

\* !currentUser || currentUser.role !== 'admin'
NotAdmin(s) == s.currentUser = Null \/ s.currentUser.role # "admin"

createProductOutcome(s, productData) ==
  IF NotAdmin(s)
  THEN Thrown("Unauthorized", s)
  ELSE LET newProduct ==
             Spread(Spread([id |-> generateId("product", s.nextId.product)], productData),
                    [inStock |-> productData.stockQuantity > 0])
       IN  Resolved(newProduct,
                    [s EXCEPT !.mockProducts = Append(s.mockProducts, newProduct),
                              !.nextId.product = @ + 1])

createProduct(productData) == Commit(createProductOutcome(State, productData))

\* productData.stockQuantity ? productData.stockQuantity > 0 : old.inStock
\* (an absent field and the number 0 are both falsy)
UpdatedInStock(old, productData) ==
  IF "stockQuantity" \in DOMAIN productData /\ productData.stockQuantity # 0
  THEN productData.stockQuantity > 0
  ELSE old.inStock

\* an updateProduct that rewrites the product inside the stored orders too
updateProductOutcomeCascade(s, id, productData) ==
  LET productIndex == FindIndex(s.mockProducts, LAMBDA p : p.id = id)
      updatedProduct ==
        Spread(Spread(s.mockProducts[productIndex], productData),
               [inStock |-> UpdatedInStock(s.mockProducts[productIndex], productData)])
      Rewritten(item) ==
        IF item.productId = id
        THEN [item EXCEPT !.product = updatedProduct, !.price = updatedProduct.price]
        ELSE item
      RewrittenOrder(order) ==
        [order EXCEPT !.items = [j \in 1..Len(order.items) |-> Rewritten(order.items[j])]]
  IN  IF NotAdmin(s)
      THEN Thrown("Unauthorized", s)
      ELSE IF productIndex = 0
      THEN Thrown("Product not found", s)
      ELSE Resolved(updatedProduct,
                    [s EXCEPT !.mockProducts[productIndex] = updatedProduct,
                              !.mockOrders = [k \in 1..Len(s.mockOrders) |->
                                                RewrittenOrder(s.mockOrders[k])]])

updateProductOutcome(s, id, productData) ==
  LET productIndex == FindIndex(s.mockProducts, LAMBDA p : p.id = id)
  IN  IF NotAdmin(s)
      THEN Thrown("Unauthorized", s)
      ELSE IF productIndex = 0
      THEN Thrown("Product not found", s)
      ELSE LET updatedProduct ==
                 Spread(Spread(s.mockProducts[productIndex], productData),
                        [inStock |-> UpdatedInStock(s.mockProducts[productIndex], productData)])
           IN  Resolved(updatedProduct,
                        [s EXCEPT !.mockProducts[productIndex] = updatedProduct])

updateProduct(id, productData) == Commit(updateProductOutcome(State, id, productData))

\* a delete without the role check
deleteProductOutcomeAnyone(s, id) ==
  LET productIndex == FindIndex(s.mockProducts, LAMBDA p : p.id = id)
  IN  IF productIndex = 0
      THEN Thrown("Product not found", s)
      ELSE Resolved(Null,
                    [s EXCEPT !.mockProducts = Splice(s.mockProducts, productIndex)])

deleteProductOutcome(s, id) ==
  LET productIndex == FindIndex(s.mockProducts, LAMBDA p : p.id = id)
  IN  IF NotAdmin(s)
      THEN Thrown("Unauthorized", s)
      ELSE IF productIndex = 0
      THEN Thrown("Product not found", s)
      ELSE Resolved(Null,
                    [s EXCEPT !.mockProducts = Splice(s.mockProducts, productIndex)])

deleteProduct(id) == Commit(deleteProductOutcome(State, id))

(***************************************************************************)
(* mockCartApi                                                              *)
(***************************************************************************)
\* a lookup that compares the cart's id with the user's
CartOfCurrentUserById(s, carts) == FindIndex(carts, LAMBDA c : c.id = s.currentUser.id)

\* carts.find(c => c.userId === currentUser.id), as an index
CartOfCurrentUser(s, carts) == FindIndex(carts, LAMBDA c : c.userId = s.currentUser.id)

getCartOutcome(s) ==
  IF s.currentUser = Null
  THEN Thrown("User not authenticated", s)
  ELSE LET idx == CartOfCurrentUser(s, s.mockCarts)
       IN  Resolved(IF idx = 0 THEN Null ELSE s.mockCarts[idx], s)

getCart == Commit(getCartOutcome(State))

\* a merge that overwrites the line's quantity
MergedQuantityOverwrite(old, requested) == requested

\* line 1026: the existing line's quantity plus the requested one
MergedQuantity(old, requested) == old + requested

\* an add that never looks for the product's line
AddItemAppendOnly(items, product, request, itemId) ==
  Append(items, [id |-> itemId, productId |-> request.productId,
                 product |-> product, quantity |-> request.quantity])

\* lines 1019-1042: merge into the line of the same product, or append a line
\* that embeds the catalog product; itemId is the id a new line gets
AddItem(items, product, request, itemId) ==
  LET existingItemIndex == FindIndex(items, LAMBDA item : item.productId = request.productId)
  IN  IF existingItemIndex > 0
      THEN [items EXCEPT ![existingItemIndex].quantity =
                            MergedQuantity(items[existingItemIndex].quantity, request.quantity)]
      ELSE Append(items, [id |-> itemId, productId |-> request.productId,
                          product |-> product, quantity |-> request.quantity])

\* a cart whose total is left as it was
RecalculateStale(cart) == cart

\* lines 1045-1049 and 1080-1083: the cart with its total recomputed
Recalculate(cart) == [cart EXCEPT !.totalAmount = SumItems(cart.items)]

\* lines 1006-1055: the user's cart, created when there is none, with the
\* product merged in and the total recomputed
AddToCartOfCurrentUser(s, product, request) ==
  LET found == CartOfCurrentUser(s, s.mockCarts)
      \* the cart is created and pushed when the user has none
      newCart == [id |-> generateId("cart", s.nextId.cart), userId |-> s.currentUser.id,
                  items |-> <<>>, totalAmount |-> 0]
      carts1 == IF found = 0 THEN Append(s.mockCarts, newCart) ELSE s.mockCarts
      cart == IF found = 0 THEN newCart ELSE s.mockCarts[found]
      isNewLine == FindIndex(cart.items,
                             LAMBDA item : item.productId = request.productId) = 0
      updated == Recalculate([cart EXCEPT !.items =
                    AddItem(cart.items, product, request,
                            generateId("item", s.nextId.item))])
      cartIndex == FindIndex(carts1, LAMBDA c : c.id = cart.id)
  IN  Resolved(updated,
               [s EXCEPT !.mockCarts = [carts1 EXCEPT ![cartIndex] = updated],
                         !.nextId.cart = IF found = 0 THEN @ + 1 ELSE @,
                         !.nextId.item = IF isNewLine THEN @ + 1 ELSE @])

\* an addToCart that creates the user's cart before it looks the product up
addToCartOutcomeCartFirst(s, request) ==
  LET productIdx == FindIndex(s.mockProducts, LAMBDA p : p.id = request.productId)
      withCart ==
        IF CartOfCurrentUser(s, s.mockCarts) = 0
        THEN [s EXCEPT !.mockCarts = Append(@, [id |-> generateId("cart", s.nextId.cart),
                                                userId |-> s.currentUser.id,
                                                items |-> <<>>, totalAmount |-> 0]),
                       !.nextId.cart = @ + 1]
        ELSE s
  IN  IF s.currentUser = Null
      THEN Thrown("User not authenticated", s)
      ELSE IF productIdx = 0
      THEN Thrown("Product not found", withCart)
      ELSE AddToCartOfCurrentUser(s, s.mockProducts[productIdx], request)

addToCartOutcome(s, request) ==
  LET productIdx == FindIndex(s.mockProducts, LAMBDA p : p.id = request.productId)
  IN  IF s.currentUser = Null
      THEN Thrown("User not authenticated", s)
      ELSE IF productIdx = 0
      THEN Thrown("Product not found", s)
      ELSE AddToCartOfCurrentUser(s, s.mockProducts[productIdx], request)

addToCart(request) == Commit(addToCartOutcome(State, request))

\* a removeFromCart that drops the cart once its last line is gone
removeFromCartOutcomeDropsEmpty(s, itemId) ==
  IF s.currentUser = Null
  THEN Thrown("User not authenticated", s)
  ELSE LET idx == CartOfCurrentUser(s, s.mockCarts)
       IN  IF idx = 0
           THEN Thrown("Cart not found", s)
           ELSE LET cart == s.mockCarts[idx]
                    updatedCart == Recalculate([cart EXCEPT !.items =
                                      SelectSeq(cart.items, LAMBDA item : item.id # itemId)])
                IN  Resolved(updatedCart,
                             [s EXCEPT !.mockCarts =
                                IF updatedCart.items = <<>>
                                THEN Splice(s.mockCarts, idx)
                                ELSE [s.mockCarts EXCEPT ![idx] = updatedCart]])

removeFromCartOutcome(s, itemId) ==
  IF s.currentUser = Null
  THEN Thrown("User not authenticated", s)
  ELSE LET idx == CartOfCurrentUser(s, s.mockCarts)
       IN  IF idx = 0
           THEN Thrown("Cart not found", s)
           ELSE LET cart == s.mockCarts[idx]
                    updatedCart == Recalculate([cart EXCEPT !.items =
                                      SelectSeq(cart.items, LAMBDA item : item.id # itemId)])
                    cartIndex == FindIndex(s.mockCarts, LAMBDA c : c.id = cart.id)
                IN  Resolved(updatedCart,
                             [s EXCEPT !.mockCarts[cartIndex] = updatedCart])

removeFromCart(itemId) == Commit(removeFromCartOutcome(State, itemId))

(***************************************************************************)
(* mockOrdersApi                                                            *)
(***************************************************************************)
\* cart.items.map(cartItem => ({ id: generateId(), ... }))
OrderItems(items, orderId) ==
  [i \in 1..Len(items) |->
     [id |-> generateId(orderId, i), productId |-> items[i].productId,
      product |-> items[i].product, quantity |-> items[i].quantity,
      price |-> items[i].product.price]]

\* the status a new order gets
InitialStatus == "pending"

\* a conversion that leaves the cart in place
RemoveCartForgotten(carts, cartIndex) == carts

\* lines 1131-1134: the source cart is spliced out of mockCarts
RemoveCart(carts, cartIndex) ==
  IF cartIndex > 0 THEN Splice(carts, cartIndex) ELSE carts

createOrderOutcome(s, request) ==
  LET cartIdx == FindIndex(s.mockCarts, LAMBDA c : c.id = request.cartId)
  IN  IF s.currentUser = Null
      THEN Thrown("User not authenticated", s)
      ELSE IF cartIdx = 0 \/ Len(s.mockCarts[cartIdx].items) = 0
      THEN Thrown("Cart not found or empty", s)
      ELSE LET cart == s.mockCarts[cartIdx]
               orderId == generateId("order", s.nextId.order)
               order == [id |-> orderId, userId |-> s.currentUser.id,
                         items |-> OrderItems(cart.items, orderId),
                         totalAmount |-> cart.totalAmount, status |-> InitialStatus,
                         shippingAddress |-> request.shippingAddress]
               cartIndex == FindIndex(s.mockCarts, LAMBDA c : c.id = cart.id)
           IN  Resolved(order,
                        [s EXCEPT
                           !.mockOrders = Append(s.mockOrders, order),
                           !.mockCarts = RemoveCart(s.mockCarts, cartIndex),
                           !.nextId.order = @ + 1])

createOrder(request) == Commit(createOrderOutcome(State, request))

\* a getOrders without the filter by user id
getOrdersOutcomeUnfiltered(s) ==
  IF s.currentUser = Null
  THEN Thrown("User not authenticated", s)
  ELSE Resolved(s.mockOrders, s)

getOrdersOutcome(s) ==
  IF s.currentUser = Null
  THEN Thrown("User not authenticated", s)
  ELSE Resolved(SelectSeq(s.mockOrders, LAMBDA o : o.userId = s.currentUser.id), s)

getOrders == Commit(getOrdersOutcome(State))

getAllOrdersOutcome(s) ==
  IF NotAdmin(s) THEN Thrown("Unauthorized", s) ELSE Resolved(s.mockOrders, s)

getAllOrders == Commit(getAllOrdersOutcome(State))

\* an updateOrderStatus that enforces an order state machine
\* (pending -> confirmed -> shipped -> delivered, cancelled from any state)
updateOrderStatusOutcomeGuarded(s, orderId, status) ==
  LET orderIndex == FindIndex(s.mockOrders, LAMBDA o : o.id = orderId)
      from == s.mockOrders[orderIndex].status
      legal == \/ status = "cancelled"
               \/ <<from, status>> \in {<<"pending", "confirmed">>, <<"confirmed", "shipped">>,
                                         <<"shipped", "delivered">>}
  IN  IF NotAdmin(s)
      THEN Thrown("Unauthorized", s)
      ELSE IF orderIndex = 0
      THEN Thrown("Order not found", s)
      ELSE IF ~legal
      THEN Thrown("Invalid status transition", s)
      ELSE LET updatedOrder == [s.mockOrders[orderIndex] EXCEPT !.status = status]
           IN  Resolved(updatedOrder,
                        [s EXCEPT !.mockOrders[orderIndex] = updatedOrder])

updateOrderStatusOutcome(s, orderId, status) ==
  LET orderIndex == FindIndex(s.mockOrders, LAMBDA o : o.id = orderId)
  IN  IF NotAdmin(s)
      THEN Thrown("Unauthorized", s)
      ELSE IF orderIndex = 0
      THEN Thrown("Order not found", s)
      ELSE LET updatedOrder == [s.mockOrders[orderIndex] EXCEPT !.status = status]
           IN  Resolved(updatedOrder,
                        [s EXCEPT !.mockOrders[orderIndex] = updatedOrder])

updateOrderStatus(orderId, status) == Commit(updateOrderStatusOutcome(State, orderId, status))

(***************************************************************************)
(* Inputs of the calls                                                      *)
(***************************************************************************)
\* a right login for each seeded user, a wrong password for each, an unknown
\* email
Credentials ==
  { [email |-> "admin@walgreens.com", password |-> "admin123"],
    [email |-> "customer@example.com", password |-> "customer123"],
    [email |-> "admin@walgreens.com", password |-> "wrong"],
    [email |-> "customer@example.com", password |-> "admin123"],
    [email |-> "nobody@example.com", password |-> "admin123"] }

\* an id no entity has
MissingId == "missing"

\* getProducts parameters: each field given or omitted; the searches hit a
\* name in another case, a description, nothing, and are empty
Searches == { <<"a", "C">>, <<"E", "N">>, <<"z">>, <<>> }
ProductParams ==
  {[x \in {} |-> Null]}
    \cup {[category |-> c] : c \in ProductCategory}
    \cup {[search |-> s] : s \in Searches}
    \cup {[category |-> c, search |-> s] : c \in ProductCategory, s \in Searches}

\* the product an admin creates
NewProducts ==
  { [name |-> <<"T", "e", "a">>, description |-> <<"a", "c", "h", "E">>, price |-> 500,
     category |-> "personal-care", stockQuantity |-> 4] }

\* Partial<ProductRequest> payloads of updateProduct
ProductUpdates ==
  { [price |-> 999], [stockQuantity |-> 0], [stockQuantity |-> 5],
    [name |-> <<"Z", "i", "p">>] }
PriceUpdates == { [price |-> 999] }

\* the UI's add-to-cart passes 1
Quantities == {1}

Addresses ==
  { [street |-> "1 Main St", city |-> "Chicago", state |-> "IL", zipCode |-> "60601",
     country |-> "US"] }

ProductIds == {mockProducts[i].id : i \in 1..Len(mockProducts)} \cup {MissingId}
CartIds == {mockCarts[i].id : i \in 1..Len(mockCarts)} \cup {MissingId}
ItemIds ==
  UNION {{mockCarts[i].items[j].id : j \in 1..Len(mockCarts[i].items)} : i \in 1..Len(mockCarts)}
    \cup {MissingId}
OrderIds == {mockOrders[i].id : i \in 1..Len(mockOrders)} \cup {MissingId}

\* the step stays within the bounds of the model
WithinBounds ==
  /\ nextId'.cart <= MaxCarts + 1
  /\ nextId'.item <= MaxItems + 1
  /\ nextId'.order <= MaxOrders + 1
  /\ nextId'.product <= MaxCreated + 1
  /\ \A i \in 1..Len(mockCarts') : \A j \in 1..Len(mockCarts'[i].items) :
        mockCarts'[i].items[j].quantity \in (0 - MaxQty)..MaxQty

(***************************************************************************)
(* Spec: every handler of the four APIs.  The catalog starts with prod-1;   *)
(* an admin creates a second product, changes prices and deletes products.  *)
(***************************************************************************)
Next ==
  \/ \E c \in Credentials : login(c)
  \/ logout
  \/ getCurrentUser
  \/ \E params \in {[category |-> "pharmacy", search |-> <<"a", "C">>]} : getProducts(params)
  \/ \E id \in ProductIds : getProduct(id)
  \/ \E pd \in NewProducts : createProduct(pd) /\ WithinBounds
  \/ \E id \in ProductIds, pd \in PriceUpdates : updateProduct(id, pd)
  \/ \E id \in ProductIds : deleteProduct(id)
  \/ getCart
  \/ \E id \in ProductIds, q \in Quantities :
        addToCart([productId |-> id, quantity |-> q]) /\ WithinBounds
  \/ \E id \in ItemIds : removeFromCart(id)
  \/ \E id \in CartIds, a \in Addresses :
        createOrder([cartId |-> id, shippingAddress |-> a]) /\ WithinBounds
  \/ getOrders
  \/ getAllOrders
  \/ \E id \in OrderIds, st \in OrderStatus : updateOrderStatus(id, st)

Spec == Init /\ [][Next]_vars

(***************************************************************************)
(* SpecCatalog: the catalog under the admin calls.  It starts with prod-1   *)
(* and prod-17 (the seeded product that is out of stock); users log in and  *)
(* out, products are listed, created, updated (price, stock) and deleted.   *)
(***************************************************************************)
InitCatalog ==
  /\ mockUsers = SeedUsers
  /\ mockProducts = SeedProducts
  /\ mockCarts = <<>>
  /\ mockOrders = <<>>
  /\ currentUser = Null
  /\ nextId = [cart |-> 1, item |-> 1, order |-> 1, product |-> 1]
  /\ inFlight = <<>>
  /\ InitPage

NextCatalog ==
  \/ \E c \in Credentials : login(c)
  \/ logout
  \/ \E params \in ProductParams : getProducts(params)
  \/ \E id \in ProductIds : getProduct(id)
  \/ \E pd \in NewProducts : createProduct(pd) /\ WithinBounds
  \/ \E id \in ProductIds, pd \in ProductUpdates : updateProduct(id, pd)
  \/ \E id \in ProductIds : deleteProduct(id)

SpecCatalog == InitCatalog /\ [][NextCatalog]_vars

(***************************************************************************)
(* SpecInFlight: calls that overlap.  A call is made (its arguments are     *)
(* fixed, `await delay()` starts its timer) and waits in inFlight while     *)
(* other calls are made; when its timer fires its body runs to the end on   *)
(* the module state of that moment.  The catalog is the seeded prod-1.      *)
(***************************************************************************)
\* the body of a call, by the handler it names
OutcomeOf(s, call) ==
  CASE call.op = "login" -> loginOutcome(s, call.request)
    [] call.op = "logout" -> logoutOutcome(s)
    [] call.op = "getCart" -> getCartOutcome(s)
    [] call.op = "addToCart" -> addToCartOutcome(s, call.request)
    [] call.op = "removeFromCart" -> removeFromCartOutcome(s, call.request.itemId)
    [] call.op = "createOrder" -> createOrderOutcome(s, call.request)
    [] call.op = "getOrders" -> getOrdersOutcome(s)
    [] call.op = "updateOrderStatus" ->
         updateOrderStatusOutcome(s, call.request.orderId, call.request.status)

\* the caller invokes a handler: it runs up to `await delay()`.  issuer is
\* not data of the program: it records who was the current user at that
\* moment, for the claims that speak of it
Issue(op, request) ==
  /\ Len(inFlight) < MaxInFlight
  /\ inFlight' = Append(inFlight, [op |-> op, request |-> request, issuer |-> currentUser])
  /\ UNCHANGED <<mockUsers, mockProducts, mockCarts, mockOrders, currentUser, nextId>>
  /\ UNCHANGED uiVars

\* the oldest timer fires: the body of that call runs
Resume ==
  /\ inFlight # <<>>
  /\ Effect(OutcomeOf(State, Head(inFlight)))
  /\ inFlight' = Tail(inFlight)
  /\ UNCHANGED uiVars

\* the logins of SpecInFlight: each seeded user, and a wrong password
SessionCredentials ==
  { [email |-> "admin@walgreens.com", password |-> "admin123"],
    [email |-> "customer@example.com", password |-> "customer123"],
    [email |-> "customer@example.com", password |-> "wrong"] }

NextInFlight ==
  \/ \E c \in SessionCredentials : Issue("login", c)
  \/ Issue("logout", Null)
  \/ Issue("getCart", Null)
  \/ \E id \in ProductIds, q \in Quantities :
        Issue("addToCart", [productId |-> id, quantity |-> q])
  \/ \E id \in ItemIds : Issue("removeFromCart", [itemId |-> id])
  \/ \E id \in CartIds, a \in Addresses :
        Issue("createOrder", [cartId |-> id, shippingAddress |-> a])
  \/ Issue("getOrders", Null)
  \/ \E id \in OrderIds, st \in {"shipped"} :
        Issue("updateOrderStatus", [orderId |-> id, status |-> st])
  \/ Resume /\ WithinBounds

SpecInFlight == Init /\ [][NextInFlight]_vars

(***************************************************************************)
(* The page around the mock module.  AuthProvider is the mock-API version   *)
(* (src/unnamed/part_011), the one whose context carries `loading`, which   *)
(* AppRouter and the first ProtectedRoute of src/src/app/App.tsx read.  A   *)
(* component's state is assigned where the code calls its setter; an effect *)
(* runs in the step that changes what it depends on; a call a component     *)
(* awaits waits in inFlight with the name of the function that awaits it,   *)
(* and that function continues when the call's body has run.                *)
(***************************************************************************)
\* the page's components as one value
Page == [authUser |-> authUser, authLoading |-> authLoading, authToken |-> authToken,
         userData |-> userData, localStorage |-> localStorage,
         providerCart |-> providerCart, cartLoading |-> cartLoading, toast |-> toast]

\* the components take the state pg
Show(pg) ==
  /\ authUser' = pg.authUser
  /\ authLoading' = pg.authLoading
  /\ authToken' = pg.authToken
  /\ userData' = pg.userData
  /\ localStorage' = pg.localStorage
  /\ providerCart' = pg.providerCart
  /\ cartLoading' = pg.cartLoading
  /\ toast' = pg.toast

\* a falsy value of the kinds the page holds: null and the empty string
Truthy(v) == v # Null /\ v # Str("")

\* toast.success(message) and toast.error(message); a message built from a
\* template keeps the template's text, and `about` is the id of the user or
\* product whose name the template inserts
Toast(kind, message, about) == [kind |-> kind, message |-> message, about |-> about]

(***************************************************************************)
(* JSON, for the values the page stores: null, strings and user objects     *)
(***************************************************************************)
\* JSON.stringify(value)
JSONstringify(v) ==
  IF v = Null THEN "null"
  ELSE IF "str" \in DOMAIN v THEN "\"" \o v.str \o "\""
  ELSE "{\"id\":\"" \o v.id \o "\",\"email\":\"" \o v.email
         \o "\",\"role\":\"" \o v.role \o "\"}"

\* the tokens mockAuthApi.login issues (line 831)
Tokens == {"mock-token-" \o SeedUsers[i].id : i \in 1..Len(SeedUsers)}

\* the values whose JSON text can be in storage
JsonValues ==
  {Null} \cup {Str(s) : s \in Tokens \cup {"", "null"}}
         \cup {SeedUsers[i] : i \in 1..Len(SeedUsers)}

\* JSON.parse(text) succeeds
IsJson(text) == \E v \in JsonValues : JSONstringify(v) = text

\* JSON.parse(text), for a text it succeeds on
JSONparse(text) == CHOOSE v \in JsonValues : JSONstringify(v) = text

(***************************************************************************)
(* useLocalStorage (src/src/shared/hooks/useLocalStorage.ts).  The page     *)
(* mounts two hooks: authToken on 'auth_token' and userData on 'user_data', *)
(* both with initial value null.                                            *)
(***************************************************************************)
StorageKeys == {"auth_token", "user_data"}

\* the component state behind the hook of a key
HookOf == [k \in StorageKeys |-> IF k = "auth_token" THEN "authToken" ELSE "userData"]

\* the initialValue argument of the hook of a key
InitialValue == [k \in StorageKeys |-> Null]

\* localStorage.setItem(key, text) and localStorage.removeItem(key)
SetItem(storage, key, text) ==
  [k \in DOMAIN storage \cup {key} |-> IF k = key THEN text ELSE storage[k]]

RemoveItem(storage, key) == [k \in DOMAIN storage \ {key} |-> storage[k]]

\* lines 42-55, the initializer of useState: getItem yields null for an
\* absent key; `item ? JSON.parse(item) : initialValue`, and initialValue
\* when parsing throws
ReadStored(storage, key, initialValue) ==
  IF key \notin DOMAIN storage \/ storage[key] = "" THEN initialValue
  ELSE IF IsJson(storage[key]) THEN JSONparse(storage[key])
  ELSE initialValue

\* a setValue that forgets the storage entry
setValueStateOnly(pg, key, value) == [pg EXCEPT ![HookOf[key]] = value]

\* lines 60-77, setValue(value) with a value that is not a function
setValue(pg, key, value) ==
  [pg EXCEPT ![HookOf[key]] = value,
             !.localStorage = SetItem(@, key, JSONstringify(value))]

\* lines 82-92, removeValue()
removeValue(pg, key) ==
  [pg EXCEPT ![HookOf[key]] = InitialValue[key],
             !.localStorage = RemoveItem(@, key)]

\* lines 97-116, handleStorageChange(e) of the hook of `key`; e.newValue is
\* Null for a removal.  A text that does not parse is caught and warned about.
handleStorageChange(pg, key, e) ==
  IF e.key = key /\ e.newValue # Null
  THEN IF IsJson(e.newValue.str)
       THEN [pg EXCEPT ![HookOf[key]] = JSONparse(e.newValue.str)]
       ELSE pg
  ELSE IF e.key = key /\ e.newValue = Null
  THEN [pg EXCEPT ![HookOf[key]] = InitialValue[key]]
  ELSE pg

(***************************************************************************)
(* AuthProvider (src/unnamed/part_011)                                      *)
(***************************************************************************)
\* lines 101-116, the effect on [authToken, userData]: the session is
\* restored from the two hooks; the mock API is not called
initializeAuth(pg) ==
  [pg EXCEPT !.authUser = IF Truthy(pg.authToken) /\ Truthy(pg.userData)
                          THEN pg.userData ELSE Null,
             !.authLoading = FALSE]

\* a login whose catch block clears the session
loginSettledClearing(pg, o) ==
  IF o.ok
  THEN [returned |-> TRUE,
        page |-> [setValue(setValue([pg EXCEPT !.authUser = o.data.user],
                                    "auth_token", Str(o.data.token)),
                           "user_data", o.data.user)
                    EXCEPT !.toast = Toast("success", "Welcome back", o.data.user.id),
                           !.authLoading = FALSE]]
  ELSE [returned |-> FALSE,
        page |-> [removeValue(removeValue([pg EXCEPT !.authUser = Null], "auth_token"),
                              "user_data")
                    EXCEPT !.toast = Toast("error", o.error, ""),
                           !.authLoading = FALSE]]

\* lines 124-141: login after `await mockAuthApi.login(...)` has settled with
\* outcome o; returned is what login resolves with
loginSettled(pg, o) ==
  IF o.ok
  THEN [returned |-> TRUE,
        page |-> [setValue(setValue([pg EXCEPT !.authUser = o.data.user],
                                    "auth_token", Str(o.data.token)),
                           "user_data", o.data.user)
                    EXCEPT !.toast = Toast("success", "Welcome back", o.data.user.id),
                           !.authLoading = FALSE]]
  ELSE [returned |-> FALSE,
        page |-> [pg EXCEPT !.toast = Toast("error", o.error, ""),
                            !.authLoading = FALSE]]

\* a logout that gives up when the call fails
logoutSettledGivingUp(pg, o) ==
  IF o.ok
  THEN [removeValue(removeValue([pg EXCEPT !.authUser = Null], "auth_token"), "user_data")
          EXCEPT !.toast = Toast("success", "Logged out successfully", ""),
                 !.authLoading = FALSE]
  ELSE [pg EXCEPT !.authLoading = FALSE]

\* lines 150-167: logout after `await mockAuthApi.logout()` has settled
logoutSettled(pg, o) ==
  LET cleared == removeValue(removeValue([pg EXCEPT !.authUser = Null], "auth_token"),
                             "user_data")
  IN  IF o.ok
      THEN [cleared EXCEPT !.toast = Toast("success", "Logged out successfully", ""),
                           !.authLoading = FALSE]
      ELSE [cleared EXCEPT !.authLoading = FALSE]

(***************************************************************************)
(* CartProvider (src/src/app/providers/CartProvider.tsx).  A function of    *)
(* the provider yields the page it leaves and the calls it has made.        *)
(***************************************************************************)
\* a call made by a function of the page, which awaits it
CallBy(caller, op, request, s) ==
  [op |-> op, request |-> request, issuer |-> s.currentUser, caller |-> caller]

\* useAuth(): isAuthenticated = user !== null (part_011 line 170)
isAuthenticated(pg) == pg.authUser # Null

\* lines 67-72: refreshCart up to its await
refreshCart(pg, s) ==
  IF ~isAuthenticated(pg)
  THEN [page |-> pg, calls |-> <<>>]
  ELSE [page |-> [pg EXCEPT !.cartLoading = TRUE],
        calls |-> <<CallBy("refreshCart", "getCart", Null, s)>>]

\* lines 72-79: refreshCart after the await
refreshCartSettled(pg, o) ==
  IF o.ok
  THEN [pg EXCEPT !.providerCart = o.data, !.cartLoading = FALSE]
  ELSE [pg EXCEPT !.toast = Toast("error", "Failed to load cart", ""),
                  !.cartLoading = FALSE]

\* an addToCart that asks only for a session
addToCartStartedAnyRole(pg, s, productId, quantity) ==
  IF ~isAuthenticated(pg)
  THEN [page |-> [pg EXCEPT !.toast =
                    Toast("error", "Please sign in as a customer to add items to cart", "")],
        calls |-> <<>>]
  ELSE [page |-> [pg EXCEPT !.cartLoading = TRUE],
        calls |-> <<CallBy("addToCart", "addToCart",
                           [productId |-> productId, quantity |-> quantity], s)>>]

\* lines 85-96: addToCart(product, quantity) up to its await
addToCartStarted(pg, s, productId, quantity) ==
  IF ~isAuthenticated(pg) \/ pg.authUser.role # "customer"
  THEN [page |-> [pg EXCEPT !.toast =
                    Toast("error", "Please sign in as a customer to add items to cart", "")],
        calls |-> <<>>]
  ELSE [page |-> [pg EXCEPT !.cartLoading = TRUE],
        calls |-> <<CallBy("addToCart", "addToCart",
                           [productId |-> productId, quantity |-> quantity], s)>>]

\* lines 96-104: addToCart after the await
addToCartSettled(pg, call, o) ==
  IF o.ok
  THEN [pg EXCEPT !.providerCart = o.data,
                  !.toast = Toast("success", "added to cart", call.request.productId),
                  !.cartLoading = FALSE]
  ELSE [pg EXCEPT !.toast = Toast("error", o.error, ""), !.cartLoading = FALSE]

\* lines 110-115: removeFromCart(itemId) up to its await
removeFromCartStarted(pg, s, itemId) ==
  IF pg.providerCart = Null
  THEN [page |-> pg, calls |-> <<>>]
  ELSE [page |-> [pg EXCEPT !.cartLoading = TRUE],
        calls |-> <<CallBy("removeFromCart", "removeFromCart", [itemId |-> itemId], s)>>]

\* lines 115-123: removeFromCart after the await
removeFromCartSettled(pg, o) ==
  IF o.ok
  THEN [pg EXCEPT !.providerCart = o.data,
                  !.toast = Toast("success", "Item removed from cart", ""),
                  !.cartLoading = FALSE]
  ELSE [pg EXCEPT !.toast = Toast("error", o.error, ""), !.cartLoading = FALSE]

\* an effect that keeps the cart of whoever was signed in
cartEffectKeeping(before, pg, s) ==
  IF before.authUser = pg.authUser THEN [page |-> pg, calls |-> <<>>]
  ELSE IF isAuthenticated(pg) /\ pg.authUser.role = "customer"
  THEN refreshCart(pg, s)
  ELSE [page |-> pg, calls |-> <<>>]

\* lines 56-62, the effect on [isAuthenticated, user], after a step that took
\* the page from `before` to pg with the mock module in state s
cartEffect(before, pg, s) ==
  IF before.authUser = pg.authUser THEN [page |-> pg, calls |-> <<>>]
  ELSE IF isAuthenticated(pg) /\ pg.authUser.role = "customer"
  THEN refreshCart(pg, s)
  ELSE [page |-> [pg EXCEPT !.providerCart = Null], calls |-> <<>>]

\* the function that awaits `call` continues with the outcome o of its body
Continued(pg, call, o) ==
  CASE call.caller = "login" -> loginSettled(pg, o).page
    [] call.caller = "logout" -> logoutSettled(pg, o)
    [] call.caller = "refreshCart" -> refreshCartSettled(pg, o)
    [] call.caller = "addToCart" -> addToCartSettled(pg, call, o)
    [] call.caller = "removeFromCart" -> removeFromCartSettled(pg, o)

(***************************************************************************)
(* Routing (src/src/app/router/AppRouter.tsx and the first ProtectedRoute   *)
(* of src/src/app/App.tsx).  An element is what a component renders: the    *)
(* spinner, a <Navigate>, or a page.                                        *)
(***************************************************************************)
LoadingSpinner == [type |-> "LoadingSpinner"]

\* <Navigate to={to} state={state} replace />; state is Null when not given
Navigate(to, state) == [type |-> "Navigate", to |-> to, state |-> state]

\* a page component, rendered
Rendering(page) == [type |-> "page", page |-> page]

\* useAuth(): the context value of AuthProvider (part_011 lines 170-178)
useAuth(pg) ==
  [isAuthenticated |-> isAuthenticated(pg), user |-> pg.authUser, loading |-> pg.authLoading]

\* a guard that never looks at the role
ProtectedRouteAnyRole(auth, loc, children, requiredRole, fallbackPath) ==
  IF auth.loading THEN LoadingSpinner
  ELSE IF ~auth.isAuthenticated \/ auth.user = Null
  THEN Navigate("/login", [from |-> loc])
  ELSE Rendering(children)

\* App.tsx lines 268-304.  requiredRole and fallbackPath are "" when the prop
\* is not given: the code tests them for truthiness only.
ProtectedRoute(auth, loc, children, requiredRole, fallbackPath) ==
  IF auth.loading THEN LoadingSpinner
  ELSE IF ~auth.isAuthenticated \/ auth.user = Null
  THEN Navigate("/login", [from |-> loc])
  ELSE IF requiredRole # "" /\ auth.user.role # requiredRole
  THEN Navigate(IF fallbackPath # "" THEN fallbackPath
                ELSE IF auth.user.role = "admin" THEN "/admin" ELSE "/",
                Null)
  ELSE Rendering(children)

\* AppRouter.tsx lines 67-129: the protected routes, their role and page
CustomerRoutes == {"/", "/products", "/cart", "/checkout"}
AdminRoutes == {"/admin", "/admin/products", "/admin/orders"}

PageOf(pathname) ==
  CASE pathname = "/" -> "HomePage"
    [] pathname = "/products" -> "ProductsPage"
    [] pathname = "/cart" -> "CartPage"
    [] pathname = "/checkout" -> "CheckoutPage"
    [] pathname = "/admin" -> "AdminDashboardPage"
    [] pathname = "/admin/products" -> "AdminProductsPage"
    [] pathname = "/admin/orders" -> "AdminOrdersPage"

\* a router whose /login route always shows the form
AppRouterOpenLogin(auth, loc) ==
  IF auth.loading THEN LoadingSpinner
  ELSE IF loc.pathname = "/login" THEN Rendering("LoginPage")
  ELSE IF loc.pathname \in CustomerRoutes
  THEN ProtectedRoute(auth, loc, PageOf(loc.pathname), "customer", "")
  ELSE IF loc.pathname \in AdminRoutes
  THEN ProtectedRoute(auth, loc, PageOf(loc.pathname), "admin", "")
  ELSE IF loc.pathname = "/404" THEN Rendering("NotFoundPage")
  ELSE Navigate("/404", Null)

\* AppRouter.tsx lines 35-137: what the router renders at location loc
AppRouter(auth, loc) ==
  IF auth.loading THEN LoadingSpinner
  ELSE IF loc.pathname = "/login"
  THEN IF auth.isAuthenticated
       THEN Navigate(IF auth.user # Null /\ auth.user.role = "admin" THEN "/admin" ELSE "/",
                     Null)
       ELSE Rendering("LoginPage")
  ELSE IF loc.pathname \in CustomerRoutes
  THEN ProtectedRoute(auth, loc, PageOf(loc.pathname), "customer", "")
  ELSE IF loc.pathname \in AdminRoutes
  THEN ProtectedRoute(auth, loc, PageOf(loc.pathname), "admin", "")
  ELSE IF loc.pathname = "/404" THEN Rendering("NotFoundPage")
  ELSE Navigate("/404", Null)

\* what the page shows now
Rendered == AppRouter(useAuth(Page), location)

\* the routes a visit can start on: every route of AppRouter and a path it
\* does not know
StartRoutes == {"/login", "/404", "/nowhere"} \cup CustomerRoutes \cup AdminRoutes

\* the module state a page load constructs
Loaded ==
  [mockUsers |-> SeedUsers, mockProducts |-> <<SeedProducts[1]>>, mockCarts |-> <<>>,
   mockOrders |-> <<>>, currentUser |-> Null,
   nextId |-> [cart |-> 1, item |-> 1, order |-> 1, product |-> 1]]

\* the providers are mounted and no effect has run yet
Mounting == authLoading /\ inFlight = <<>>

(***************************************************************************)
(* Steps of the page                                                        *)
(***************************************************************************)
\* a function of the page ran up to its await (or to its end): the page it
\* leaves is shown and its calls wait
Started(result) ==
  /\ Len(inFlight) + Len(result.calls) <= MaxInFlight
  /\ Show(result.page)
  /\ inFlight' = inFlight \o result.calls
  /\ UNCHANGED <<mockUsers, mockProducts, mockCarts, mockOrders, currentUser, nextId>>
  /\ UNCHANGED <<storageEvents, location, redirects, api>>

\* the effects of the first render: initializeAuth, then CartProvider's
\* effect for the user it restored
InitializeAuth ==
  /\ Mounting
  /\ Started(cartEffect(Page, initializeAuth(Page), State))

\* part_011 lines 121-124: login(email, password) up to its await
AuthLogin(credentials) ==
  /\ ~Mounting
  /\ Started([page |-> [Page EXCEPT !.authLoading = TRUE],
              calls |-> <<CallBy("login", "login", credentials, State)>>])

\* part_011 lines 147-151: logout() up to its await
AuthLogout ==
  /\ ~Mounting
  /\ Started([page |-> [Page EXCEPT !.authLoading = TRUE],
              calls |-> <<CallBy("logout", "logout", Null, State)>>])

CartAdd(productId, quantity) ==
  /\ ~Mounting
  /\ Started(addToCartStarted(Page, State, productId, quantity))

CartRemove(itemId) ==
  /\ ~Mounting
  /\ Started(removeFromCartStarted(Page, State, itemId))

\* CartProvider.tsx lines 129-131: clearCart()
CartClear ==
  /\ ~Mounting
  /\ providerCart # Null
  /\ Started([page |-> [Page EXCEPT !.providerCart = Null], calls |-> <<>>])

\* the oldest timer fires: the body of that call runs, the function that
\* awaits it continues, and the effect on the user it set runs
Settle ==
  /\ inFlight # <<>>
  /\ LET call == Head(inFlight)
         o == OutcomeOf(State, call)
         after == cartEffect(Page, Continued(Page, call, o), o.state)
     IN  /\ Effect(o)
         /\ Show(after.page)
         /\ inFlight' = Tail(inFlight) \o after.calls
         /\ redirects' = IF after.page.authUser = authUser THEN redirects ELSE 0
  /\ UNCHANGED <<storageEvents, location, api>>

\* the router renders a <Navigate>: the location is replaced
Redirect ==
  /\ Rendered.type = "Navigate"
  /\ location' = [pathname |-> Rendered.to, state |-> Rendered.state]
  /\ redirects' = redirects + 1
  /\ UNCHANGED <<mockUsers, mockProducts, mockCarts, mockOrders, currentUser, nextId,
                 inFlight, authUser, authLoading, authToken, userData, localStorage,
                 storageEvents, providerCart, cartLoading, toast, api>>

\* a link of the rendered page is followed: navigate(path)
\* (CustomerLayout.tsx lines 42-93, AdminLayout.tsx line 100)
Go(path) ==
  /\ Rendered.type = "page"
  /\ location.pathname # path
  /\ location' = [pathname |-> path, state |-> Null]
  /\ redirects' = 0
  /\ UNCHANGED <<mockUsers, mockProducts, mockCarts, mockOrders, currentUser, nextId,
                 inFlight, authUser, authLoading, authToken, userData, localStorage,
                 storageEvents, providerCart, cartLoading, toast, api>>

\* the page is loaded (or reloaded) at a path: the mock module is evaluated
\* anew, the calls that waited are gone, the providers are constructed and
\* the two hooks read localStorage, which is all that survives
Load(path) ==
  /\ Effect([state |-> Loaded])
  /\ inFlight' = <<>>
  /\ authUser' = Null
  /\ authLoading' = TRUE
  /\ authToken' = ReadStored(localStorage, "auth_token", InitialValue["auth_token"])
  /\ userData' = ReadStored(localStorage, "user_data", InitialValue["user_data"])
  /\ providerCart' = Null
  /\ cartLoading' = FALSE
  /\ toast' = Null
  /\ location' = [pathname |-> path, state |-> Null]
  /\ redirects' = 0
  /\ UNCHANGED <<localStorage, storageEvents, api>>

(***************************************************************************)
(* SpecSession: one visitor's page.  The login form is used where it is     *)
(* rendered, the user menu where a protected page is; the page is reloaded  *)
(* at any route.                                                            *)
(***************************************************************************)
NextSession ==
  \/ InitializeAuth
  \/ \E c \in SessionCredentials : Rendered = Rendering("LoginPage") /\ AuthLogin(c)
  \/ Rendered.type = "page" /\ location.pathname \in CustomerRoutes \cup AdminRoutes
       /\ AuthLogout
  \/ Settle
  \/ Redirect
  \/ \E path \in StartRoutes : Go(path)
  \/ \E path \in StartRoutes : Load(path)

SpecSession == Init /\ [][NextSession]_vars

(***************************************************************************)
(* SpecCart: the providers' functions called in any order, also while       *)
(* earlier calls wait                                                       *)
(***************************************************************************)
NextCart ==
  \/ InitializeAuth
  \/ \E c \in SessionCredentials : AuthLogin(c)
  \/ AuthLogout
  \/ \E id \in ProductIds, q \in Quantities : CartAdd(id, q)
  \/ \E id \in ItemIds : CartRemove(id)
  \/ CartClear
  \/ Settle /\ WithinBounds

SpecCart == Init /\ [][NextCart]_vars

(***************************************************************************)
(* SpecStorage: the two useLocalStorage hooks, their setters called with    *)
(* the values of their types, another tab of the same origin writing to     *)
(* localStorage, and the component mounting anew.  A write by another tab   *)
(* changes the shared localStorage at once and reaches this tab later as a  *)
(* storage event; this tab's own writes raise no event here.                *)
(***************************************************************************)
MaxEvents == 2

\* a key no hook of the page is mounted on
OtherKey == "theme"

\* the values each hook is given: string | null and User | null
ValuesOf ==
  [k \in StorageKeys |->
     IF k = "auth_token" THEN {Null, Str(""), Str("mock-token-customer-1")}
     ELSE {Null, SeedUsers[2]}]

\* the texts another tab writes under a key: what the same hook would write
\* there and, for auth_token, a text that is not JSON
TextsOf(key) ==
  IF key = OtherKey THEN {"\"dark\""}
  ELSE {JSONstringify(v) : v \in ValuesOf[key]}
         \cup (IF key = "auth_token" THEN {"oops"} ELSE {})

\* the StorageEvent of a write: key and newValue are null for clear(), and
\* newValue is null for a removal
StorageEvent(key, newValue) == [key |-> key, newValue |-> newValue]

HookSetValue(key, value) ==
  /\ Show(setValue(Page, key, value))
  /\ UNCHANGED <<mockUsers, mockProducts, mockCarts, mockOrders, currentUser, nextId,
                 inFlight, storageEvents, location, redirects, api>>

HookRemoveValue(key) ==
  /\ Show(removeValue(Page, key))
  /\ UNCHANGED <<mockUsers, mockProducts, mockCarts, mockOrders, currentUser, nextId,
                 inFlight, storageEvents, location, redirects, api>>

\* another tab changed localStorage to `storage` and the event e is raised
OtherTabWrote(storage, e) ==
  /\ Len(storageEvents) < MaxEvents
  /\ storage # localStorage
  /\ localStorage' = storage
  /\ storageEvents' = Append(storageEvents, e)
  /\ UNCHANGED <<mockUsers, mockProducts, mockCarts, mockOrders, currentUser, nextId,
                 inFlight, authUser, authLoading, authToken, userData, location,
                 redirects, providerCart, cartLoading, toast, api>>

OtherTabSetItem(key, text) ==
  OtherTabWrote(SetItem(localStorage, key, text), StorageEvent(Str(key), Str(text)))

OtherTabRemoveItem(key) ==
  OtherTabWrote(RemoveItem(localStorage, key), StorageEvent(Str(key), Null))

OtherTabClear == OtherTabWrote(EmptyStorage, StorageEvent(Null, Null))

\* useLocalStorage.ts lines 97-116: the window's storage event reaches the
\* listener of each mounted hook
DeliverStorageEvent ==
  /\ storageEvents # <<>>
  /\ LET e == [key |-> IF Head(storageEvents).key = Null THEN ""
                       ELSE Head(storageEvents).key.str,
               newValue |-> Head(storageEvents).newValue]
     IN  Show(handleStorageChange(handleStorageChange(Page, "auth_token", e),
                                  "user_data", e))
  /\ storageEvents' = Tail(storageEvents)
  /\ UNCHANGED <<mockUsers, mockProducts, mockCarts, mockOrders, currentUser, nextId,
                 inFlight, location, redirects, api>>

NextStorage ==
  \/ \E key \in StorageKeys : \E value \in ValuesOf[key] : HookSetValue(key, value)
  \/ \E key \in StorageKeys : HookRemoveValue(key)
  \/ \E key \in StorageKeys \cup {OtherKey} : \E text \in TextsOf(key) :
        OtherTabSetItem(key, text)
  \/ \E key \in StorageKeys \cup {OtherKey} : OtherTabRemoveItem(key)
  \/ OtherTabClear
  \/ DeliverStorageEvent
  \/ Load("/")

SpecStorage == Init /\ [][NextStorage]_vars

(***************************************************************************)
(* SpecApi: one useApi or useMutation hook (src/src/shared/hooks/useApi.ts; *)
(* executeWithRetry, lines 81-120, and useMutation's execute, lines         *)
(* 175-214, are the same code but for the argument passed to the API        *)
(* function).  The API function is any function that returns a promise: it  *)
(* resolves with a response or rejects with something thrown.  execute is   *)
(* called when no execution runs.                                           *)
(***************************************************************************)
MaxRetries == 2

\* what execute has returned while its promise is pending
Pending == [pending |-> TRUE]

\* the data of the responses the API function resolves with
ApiData == {Str("a"), Str("b")}

\* what the API function rejects with: an ApiClientError, an Error, or a
\* value that is not an Error
ApiFailures ==
  { [kind |-> "ApiClientError", message |-> "Not found"],
    [kind |-> "Error", message |-> "Network error"],
    [kind |-> "thrown", message |-> ""] }

\* lines 97-101: the message taken from what was thrown
errorMessage(error) ==
  IF error.kind \in {"ApiClientError", "Error"} THEN error.message
  ELSE "An unexpected error occurred"

\* a retry test that allows one attempt more
ShouldRetryOnceMore(attempt, retries) == attempt <= retries

\* line 104: if (attempt < retries)
ShouldRetry(attempt, retries) == attempt < retries

\* lines 83-86: executeWithRetry(attempt) up to `await apiCall()`
executeStarted(a, attempt) ==
  [a EXCEPT !.state = [@ EXCEPT !.loading = TRUE, !.error = Null],
            !.pc = "apiCall",
            !.attempt = attempt,
            !.calls = IF attempt = 0 THEN 1 ELSE @ + 1,
            !.returned = Pending]

\* lines 88-95: the call resolved with response.data = data
apiResolved(a, data) ==
  [a EXCEPT !.state = [@ EXCEPT !.data = data, !.loading = FALSE, !.error = Null],
            !.pc = "idle",
            !.returned = data]

\* lines 96-119: the call rejected with `error`
apiRejected(a, error) ==
  IF ShouldRetry(a.attempt, a.retries)
  THEN [a EXCEPT !.pc = "retryDelay"]
  ELSE [a EXCEPT !.state = [@ EXCEPT !.data = Null, !.loading = FALSE,
                                     !.error = Str(errorMessage(error))],
                 !.pc = "idle",
                 !.returned = Null]

\* lines 125-131: reset()
apiReset(a) == [a EXCEPT !.state = [data |-> Null, loading |-> FALSE, error |-> Null]]

\* the hook takes the state a
ApiStep(a) ==
  /\ api' = a
  /\ UNCHANGED <<mockUsers, mockProducts, mockCarts, mockOrders, currentUser, nextId,
                 inFlight, authUser, authLoading, authToken, userData, localStorage,
                 storageEvents, location, redirects, providerCart, cartLoading, toast>>

ApiExecute == api.pc = "idle" /\ ApiStep(executeStarted(api, 0))

ApiResolves(data) == api.pc = "apiCall" /\ ApiStep(apiResolved(api, data))

ApiRejects(error) == api.pc = "apiCall" /\ ApiStep(apiRejected(api, error))

\* lines 105-106: the retry delay has passed, executeWithRetry(attempt + 1)
RetryDelayPasses == api.pc = "retryDelay" /\ ApiStep(executeStarted(api, api.attempt + 1))

ApiReset ==
  /\ api.pc = "idle"
  /\ api.state # apiReset(api).state
  /\ ApiStep(apiReset(api))

\* the promise of the API function settles
ApiSettles ==
  \/ \E data \in ApiData : ApiResolves(data)
  \/ \E error \in ApiFailures : ApiRejects(error)

\* the hooks a component can mount: useApi with or without `immediate`,
\* useMutation, each with 0..MaxRetries retries
InitApi ==
  /\ mockUsers = SeedUsers
  /\ mockProducts = <<SeedProducts[1]>>
  /\ mockCarts = <<>>
  /\ mockOrders = <<>>
  /\ currentUser = Null
  /\ nextId = [cart |-> 1, item |-> 1, order |-> 1, product |-> 1]
  /\ inFlight = <<>>
  /\ InitComponents
  /\ \E retries \in 0..MaxRetries :
        api \in {ApiMounted("useApi", retries, FALSE), ApiMounted("useApi", retries, TRUE),
                 ApiMounted("useMutation", retries, FALSE)}

NextApi ==
  \/ ApiExecute
  \/ ApiSettles
  \/ RetryDelayPasses
  \/ ApiReset

SpecApi == InitApi /\ [][NextApi]_vars

\* the promise of a call settles and the timer of a retry delay fires
SpecApiFair == SpecApi /\ WF_vars(ApiSettles) /\ WF_vars(RetryDelayPasses)

(***************************************************************************)
(* Notions the claims are stated with                                       *)
(***************************************************************************)
\* the seeded user with this id
UserWithId(id) == mockUsers[CHOOSE i \in 1..Len(mockUsers) : mockUsers[i].id = id]

\* the positions of the carts of a user in a state, and of the lines of a
\* product in a cart
CartsOf(s, userId) == {i \in 1..Len(s.mockCarts) : s.mockCarts[i].userId = userId}
LinesOf(cart, productId) == {j \in 1..Len(cart.items) : cart.items[j].productId = productId}

\* the total of the current user's cart in a state, 0 when there is none
TotalOfCurrentUser(s) ==
  IF CartsOf(s, s.currentUser.id) = {} THEN 0
  ELSE s.mockCarts[CHOOSE i \in CartsOf(s, s.currentUser.id) : TRUE].totalAmount

\* price * quantity summed over the lines at the given positions
RECURSIVE LinesSum(_, _)
LinesSum(items, positions) ==
  IF positions = {} THEN 0
  ELSE LET j == CHOOSE k \in positions : TRUE
       IN  items[j].product.price * items[j].quantity + LinesSum(items, positions \ {j})

\* the quantities a caller may pass
AnyQuantity == (0 - 1)..MaxQty

\* the caller's role, as the claims speak of it
CallerIsAdmin == currentUser # Null /\ currentUser.role = "admin"
CallerIsCustomer == currentUser # Null /\ currentUser.role = "customer"

(***************************************************************************)
(* C1.  For an authenticated user, a product P of the catalog and           *)
(* quantities q1, q2: from a state where the user's cart has no line for P  *)
(* (or the user has no cart), addToCart(P, q1) followed by addToCart(P, q2) *)
(* both succeed and leave exactly one line for P, with quantity q1 + q2,    *)
(* in the returned and the stored cart, and the cart's totalAmount has      *)
(* grown by P.price * (q1 + q2).                                            *)
(***************************************************************************)
C1_AddTwiceMerges ==
  \A p \in 1..Len(mockProducts), q1 \in AnyQuantity, q2 \in AnyQuantity :
    LET P == mockProducts[p]
        noLine == /\ currentUser # Null
                  /\ \A i \in CartsOf(State, currentUser.id) :
                        LinesOf(mockCarts[i], P.id) = {}
        first == addToCartOutcome(State, [productId |-> P.id, quantity |-> q1])
        second == addToCartOutcome(first.state, [productId |-> P.id, quantity |-> q2])
        cart == second.data
    IN  noLine =>
          /\ first.ok /\ second.ok
          /\ Cardinality(LinesOf(cart, P.id)) = 1
          /\ \A j \in LinesOf(cart, P.id) : cart.items[j].quantity = q1 + q2
          /\ cart.totalAmount = TotalOfCurrentUser(State) + P.price * (q1 + q2)
          /\ \A i \in CartsOf(second.state, currentUser.id) : second.state.mockCarts[i] = cart
          /\ Cardinality(CartsOf(second.state, currentUser.id)) = 1

\* a stored cart whose only line was merged from two adds (each call passes
\* 1, the line holds 2) and whose total is price * 2
C1_Witness ==
  \E i \in 1..Len(mockCarts) :
    /\ Len(mockCarts[i].items) = 1
    /\ mockCarts[i].items[1].quantity = 2
    /\ mockCarts[i].totalAmount = mockCarts[i].items[1].product.price * 2

(***************************************************************************)
(* C2.  createOrder(cartId, address) by a logged-in user on a cart with     *)
(* lines succeeds and appends exactly one order: status pending, one item   *)
(* per cart line with the line's productId and quantity, totalAmount the    *)
(* sum of price * quantity over the lines.  Afterwards no cart has that id: *)
(* getCart by the cart's owner returns null and a second createOrder with   *)
(* the same cartId fails with 'Cart not found or empty'.                    *)
(***************************************************************************)
C2_CreateOrderSnapshot ==
  \A c \in 1..Len(mockCarts), a \in Addresses :
    LET cart == mockCarts[c]
        request == [cartId |-> cart.id, shippingAddress |-> a]
        o == createOrderOutcome(State, request)
        order == o.data
        asOwner == [o.state EXCEPT !.currentUser = UserWithId(cart.userId)]
        again == createOrderOutcome(o.state, request)
    IN  (currentUser # Null /\ Len(cart.items) > 0) =>
          /\ o.ok
          /\ o.state.mockOrders = Append(mockOrders, order)
          /\ order.status = "pending"
          /\ Len(order.items) = Len(cart.items)
          /\ \A j \in 1..Len(cart.items) :
                /\ order.items[j].productId = cart.items[j].productId
                /\ order.items[j].quantity = cart.items[j].quantity
          /\ order.totalAmount = LinesSum(cart.items, 1..Len(cart.items))
          /\ \A i \in 1..Len(o.state.mockCarts) : o.state.mockCarts[i].id # cart.id
          /\ getCartOutcome(asOwner).ok /\ getCartOutcome(asOwner).data = Null
          /\ ~again.ok /\ again.error = "Cart not found or empty"

\* the order of the spec's example: 2 x 12.99 + 1 x 5.00 = 30.98, pending,
\* and its user has no cart any more
C2_Witness ==
  \E k \in 1..Len(mockOrders) :
    /\ mockOrders[k].status = "pending"
    /\ Len(mockOrders[k].items) = 2
    /\ mockOrders[k].items[1].quantity = 2 /\ mockOrders[k].items[1].price = 1299
    /\ mockOrders[k].items[2].quantity = 1 /\ mockOrders[k].items[2].price = 500
    /\ mockOrders[k].totalAmount = 3098
    /\ CartsOf(State, mockOrders[k].userId) = {}

(***************************************************************************)
(* C3.  updateOrderStatus while the current user is not an admin (a         *)
(* customer, or nobody) fails with 'Unauthorized' for every order id and    *)
(* every status, and leaves the module state, the orders included, as it    *)
(* was.                                                                     *)
(***************************************************************************)
C3_StatusUpdateNeedsAdmin ==
  \A id \in OrderIds, st \in OrderStatus :
    LET o == updateOrderStatusOutcome(State, id, st)
    IN  ~CallerIsAdmin =>
          /\ ~o.ok /\ o.error = "Unauthorized"
          /\ o.state = State

\* a customer is logged in, an order exists that an admin moved to shipped,
\* and the customer's call to set it to delivered is rejected
C3_Witness ==
  /\ CallerIsCustomer
  /\ \E k \in 1..Len(mockOrders) :
        /\ mockOrders[k].status = "shipped"
        /\ updateOrderStatusOutcome(State, mockOrders[k].id, "delivered").error = "Unauthorized"

(***************************************************************************)
(* C4.  login with a seeded email and its password succeeds, sets the       *)
(* current user to that user and returns it with its seeded role; login     *)
(* with a wrong password fails with an error and leaves the current-user    *)
(* pointer as it was, null or another logged-in user.                       *)
(***************************************************************************)
SeededLogins ==
  { [email |-> "admin@walgreens.com", password |-> "admin123", role |-> "admin"],
    [email |-> "customer@example.com", password |-> "customer123", role |-> "customer"] }
Passwords == {"admin123", "customer123", "wrong", ""}

C4_LoginSetsPointerOnlyOnSuccess ==
  \A l \in SeededLogins :
    LET good == loginOutcome(State, [email |-> l.email, password |-> l.password])
    IN  /\ good.ok
        /\ good.state.currentUser.email = l.email
        /\ good.state.currentUser.role = l.role
        /\ good.data.user = good.state.currentUser
        /\ \A pw \in Passwords \ {l.password} :
              LET bad == loginOutcome(State, [email |-> l.email, password |-> pw])
              IN  ~bad.ok /\ bad.error # "" /\ bad.state.currentUser = currentUser

\* the customer is logged in (a login has set the pointer) and a login as the
\* admin with a wrong password is rejected
C4_Witness ==
  /\ CallerIsCustomer
  /\ ~loginOutcome(State, [email |-> "admin@walgreens.com", password |-> "wrong"]).ok

(***************************************************************************)
(* C5.  removeFromCart(itemId), itemId being the only line of the current   *)
(* user's cart, returns and stores a cart with no items and totalAmount 0;  *)
(* the cart still exists under its id (getCart returns it), and createOrder *)
(* on it fails with 'Cart not found or empty'.                              *)
(***************************************************************************)
C5_RemoveOnlyLine ==
  \A c \in 1..Len(mockCarts), a \in Addresses :
    LET cart == mockCarts[c]
        o == removeFromCartOutcome(State, cart.items[1].id)
        got == getCartOutcome(o.state)
        order == createOrderOutcome(o.state, [cartId |-> cart.id, shippingAddress |-> a])
    IN  (currentUser # Null /\ cart.userId = currentUser.id /\ Len(cart.items) = 1) =>
          /\ o.ok
          /\ o.data.items = <<>> /\ o.data.totalAmount = 0
          /\ o.data.id = cart.id
          /\ Len(o.state.mockCarts) = Len(mockCarts)
          /\ o.state.mockCarts[c] = o.data
          /\ got.ok /\ got.data = o.data
          /\ ~order.ok /\ order.error = "Cart not found or empty"

\* a stored cart without lines (addToCart never leaves one: a removal did)
C5_Witness ==
  \E i \in 1..Len(mockCarts) :
    mockCarts[i].items = <<>> /\ mockCarts[i].totalAmount = 0

(***************************************************************************)
(* C8.  Every call that fails leaves users, products, carts, orders and     *)
(* the current-user pointer as they were: a failing addToCart creates no    *)
(* cart, a failing createOrder adds no order and removes no cart.           *)
(***************************************************************************)
FailureKeepsState(o) == ~o.ok => o.state = State

\* the product requests of the claims: what an admin may send
AnyProductUpdate == ProductUpdates

C8_FailureLeavesStateUnchanged ==
  /\ \A c \in Credentials : FailureKeepsState(loginOutcome(State, c))
  /\ FailureKeepsState(logoutOutcome(State))
  /\ FailureKeepsState(getCurrentUserOutcome(State))
  /\ \A id \in ProductIds : FailureKeepsState(getProductOutcome(State, id))
  /\ \A pd \in NewProducts : FailureKeepsState(createProductOutcome(State, pd))
  /\ \A id \in ProductIds, pd \in AnyProductUpdate :
        FailureKeepsState(updateProductOutcome(State, id, pd))
  /\ \A id \in ProductIds : FailureKeepsState(deleteProductOutcome(State, id))
  /\ FailureKeepsState(getCartOutcome(State))
  /\ \A id \in ProductIds, q \in AnyQuantity :
        FailureKeepsState(addToCartOutcome(State, [productId |-> id, quantity |-> q]))
  /\ \A id \in ItemIds : FailureKeepsState(removeFromCartOutcome(State, id))
  /\ \A id \in CartIds, a \in Addresses :
        FailureKeepsState(createOrderOutcome(State, [cartId |-> id, shippingAddress |-> a]))
  /\ FailureKeepsState(getOrdersOutcome(State))
  /\ FailureKeepsState(getAllOrdersOutcome(State))
  /\ \A id \in OrderIds, st \in OrderStatus :
        FailureKeepsState(updateOrderStatusOutcome(State, id, st))

\* a logged-in user without a cart, after an order was placed: addToCart of
\* an unknown product and createOrder of an unknown cart both fail
C8_Witness ==
  /\ currentUser # Null
  /\ CartsOf(State, currentUser.id) = {}
  /\ Len(mockOrders) > 0
  /\ addToCartOutcome(State, [productId |-> MissingId, quantity |-> 1]).error
       = "Product not found"
  /\ \E a \in Addresses :
        createOrderOutcome(State, [cartId |-> MissingId, shippingAddress |-> a]).error
          = "Cart not found or empty"

(***************************************************************************)
(* C9.  With an admin as current user, updateOrderStatus accepts each of    *)
(* the 25 (from, to) pairs of statuses, a status equal to the current one   *)
(* included: it succeeds, the stored order has the requested status, its    *)
(* other fields and the other orders are unchanged.                         *)
(***************************************************************************)
C9_AnyTransitionAccepted ==
  \A k \in 1..Len(mockOrders), st \in OrderStatus :
    LET old == mockOrders[k]
        o == updateOrderStatusOutcome(State, old.id, st)
        new == o.state.mockOrders[k]
    IN  CallerIsAdmin =>
          /\ o.ok
          /\ new.status = st /\ o.data = new
          /\ new.id = old.id /\ new.items = old.items /\ new.totalAmount = old.totalAmount
          /\ new.userId = old.userId /\ new.shippingAddress = old.shippingAddress
          /\ Len(o.state.mockOrders) = Len(mockOrders)
          /\ \A j \in 1..Len(mockOrders) : j # k => o.state.mockOrders[j] = mockOrders[j]

\* an admin is logged in and an order has been moved to delivered; setting it
\* back to pending is accepted
C9_Witness ==
  /\ CallerIsAdmin
  /\ \E k \in 1..Len(mockOrders) :
        /\ mockOrders[k].status = "delivered"
        /\ updateOrderStatusOutcome(State, mockOrders[k].id, "pending").ok

(***************************************************************************)
(* C10.  The current-user pointer is null initially, becomes a seeded user  *)
(* only by a successful login and null only by logout; logout always        *)
(* succeeds; getCurrentUser returns the pointer when it is set and fails    *)
(* with 'No authenticated user' exactly when it is null; no product, cart   *)
(* or order call changes the pointer.                                       *)
(***************************************************************************)
KeepsPointer(o) == o.state.currentUser = currentUser

SeededUsers == {mockUsers[i] : i \in 1..Len(mockUsers)}

C10_PointerInState ==
  /\ currentUser = Null \/ currentUser \in SeededUsers
  /\ logoutOutcome(State).ok /\ logoutOutcome(State).state.currentUser = Null
  /\ IF currentUser = Null
     THEN /\ ~getCurrentUserOutcome(State).ok
          /\ getCurrentUserOutcome(State).error = "No authenticated user"
     ELSE /\ getCurrentUserOutcome(State).ok
          /\ getCurrentUserOutcome(State).data = currentUser
  /\ KeepsPointer(getCurrentUserOutcome(State))
  /\ \A c \in Credentials :
        LET o == loginOutcome(State, c)
        IN  IF o.ok THEN o.state.currentUser \in SeededUsers ELSE KeepsPointer(o)
  /\ \A params \in ProductParams : KeepsPointer(getProductsOutcome(State, params))
  /\ \A id \in ProductIds : KeepsPointer(getProductOutcome(State, id))
  /\ \A pd \in NewProducts : KeepsPointer(createProductOutcome(State, pd))
  /\ \A id \in ProductIds, pd \in AnyProductUpdate :
        KeepsPointer(updateProductOutcome(State, id, pd))
  /\ \A id \in ProductIds : KeepsPointer(deleteProductOutcome(State, id))
  /\ KeepsPointer(getCartOutcome(State))
  /\ \A id \in ProductIds, q \in AnyQuantity :
        KeepsPointer(addToCartOutcome(State, [productId |-> id, quantity |-> q]))
  /\ \A id \in ItemIds : KeepsPointer(removeFromCartOutcome(State, id))
  /\ \A id \in CartIds, a \in Addresses :
        KeepsPointer(createOrderOutcome(State, [cartId |-> id, shippingAddress |-> a]))
  /\ KeepsPointer(getOrdersOutcome(State))
  /\ KeepsPointer(getAllOrdersOutcome(State))
  /\ \A id \in OrderIds, st \in OrderStatus :
        KeepsPointer(updateOrderStatusOutcome(State, id, st))

\* a step that changes the pointer is a logout that sets it to null or a
\* successful login that sets it to a seeded user
C10_PointerStep ==
  currentUser' # currentUser =>
    IF currentUser' = Null
    THEN logout
    ELSE \E c \in Credentials : loginOutcome(State, c).ok /\ login(c)

C10_AuthStateMachine ==
  /\ currentUser = Null
  /\ [][C10_PointerStep]_vars
  /\ []C10_PointerInState

\* anonymous again after a session in which an order was placed
C10_Witness ==
  /\ currentUser = Null
  /\ Len(mockOrders) > 0
  /\ ~getCurrentUserOutcome(State).ok

(***************************************************************************)
(* C6.  For every catalog, category C and search string S, getProducts      *)
(* returns exactly the products p with (C omitted or p.category = C) and    *)
(* (S omitted or p.name or p.description contains S, letter case ignored),  *)
(* in catalog order: every product when both are omitted, the empty list    *)
(* and no error when nothing matches; the catalog is not changed.           *)
(***************************************************************************)
\* the same letter, in either case
SameLetter(a, b) ==
  \/ a = b
  \/ \E n \in 1..Len(UpperCase) : {a, b} = {UpperCase[n], LowerCase[n]}

ContainsIgnoringCase(text, S) ==
  \E i \in 0..(Len(text) - Len(S)) : \A k \in 1..Len(S) : SameLetter(text[i + k], S[k])

Matches(p, params) ==
  /\ "category" \in DOMAIN params => p.category = params.category
  /\ "search" \in DOMAIN params =>
        \/ ContainsIgnoringCase(p.name, params.search)
        \/ ContainsIgnoringCase(p.description, params.search)

C6_GetProductsFilters ==
  \A params \in ProductParams :
    LET o == getProductsOutcome(State, params)
    IN  /\ o.ok
        /\ o.data = SelectSeq(mockProducts, LAMBDA p : Matches(p, params))
        /\ DOMAIN params = {} => o.data = mockProducts
        /\ o.state = State

\* a catalog of three products: the search "aC" finds the first by its name
\* "Ace" and the third by its description "achE", in that order, and not the
\* second; the search "z" finds nothing
C6_Witness ==
  /\ Len(mockProducts) = 3
  /\ LET found == getProductsOutcome(State, [search |-> <<"a", "C">>]).data
     IN  found = <<mockProducts[1], mockProducts[3]>>
  /\ getProductsOutcome(State, [search |-> <<"z">>]).ok
  /\ getProductsOutcome(State, [search |-> <<"z">>]).data = <<>>

(***************************************************************************)
(* C7.  createProduct, updateProduct and deleteProduct succeed only for an  *)
(* admin; for a customer or nobody each fails with 'Unauthorized' and the   *)
(* catalog is unchanged.  For an admin, updateProduct and deleteProduct of  *)
(* an id that is not in the catalog fail with 'Product not found' and       *)
(* leave the catalog unchanged.                                             *)
(***************************************************************************)
AdminOnly(o) ==
  /\ o.ok => CallerIsAdmin
  /\ ~CallerIsAdmin =>
        ~o.ok /\ o.error = "Unauthorized" /\ o.state.mockProducts = mockProducts

NotFound(o) ==
  CallerIsAdmin =>
    ~o.ok /\ o.error = "Product not found" /\ o.state.mockProducts = mockProducts

InCatalog(id) == \E i \in 1..Len(mockProducts) : mockProducts[i].id = id

C7_CatalogWritesNeedAdmin ==
  /\ \A pd \in NewProducts : AdminOnly(createProductOutcome(State, pd))
  /\ \A id \in ProductIds, pd \in AnyProductUpdate :
        /\ AdminOnly(updateProductOutcome(State, id, pd))
        /\ ~InCatalog(id) => NotFound(updateProductOutcome(State, id, pd))
  /\ \A id \in ProductIds :
        /\ AdminOnly(deleteProductOutcome(State, id))
        /\ ~InCatalog(id) => NotFound(deleteProductOutcome(State, id))

\* the customer is logged in, on a catalog an admin has changed (prod-1
\* deleted, a product created): the customer's delete is rejected
C7_Witness ==
  /\ CallerIsCustomer
  /\ ~InCatalog("prod-1")
  /\ Len(mockProducts) = 2
  /\ \E id \in ProductIds :
        InCatalog(id) /\ deleteProductOutcome(State, id).error = "Unauthorized"

(***************************************************************************)
(* C11.  login fails with one and the same error message in both failure    *)
(* cases: the message for an email that matches no user equals the message  *)
(* for a seeded email with a wrong password.                                *)
(***************************************************************************)
SeededEmails == {l.email : l \in SeededLogins}

C11_SameLoginError ==
  \A unknown \in Credentials, wrong \in Credentials :
    LET absent == loginOutcome(State, unknown)
        mismatch == loginOutcome(State, wrong)
    IN  ( /\ unknown.email \notin SeededEmails
          /\ wrong.email \in SeededEmails
          /\ \A l \in SeededLogins : l.email = wrong.email => l.password # wrong.password ) =>
          /\ ~absent.ok /\ ~mismatch.ok
          /\ absent.error = mismatch.error

(***************************************************************************)
(* C12.  getCart returns the cart whose userId is the current user's id, or *)
(* null when there is none, never another user's cart; getOrders returns    *)
(* exactly the orders whose userId is the current user's id; getAllOrders   *)
(* returns every order for an admin and fails with 'Unauthorized'           *)
(* otherwise; all three fail when nobody is logged in, and none changes the *)
(* state.                                                                   *)
(***************************************************************************)
OrdersOf(s, userId) == {k \in 1..Len(s.mockOrders) : s.mockOrders[k].userId = userId}

C12_ReadIsolation ==
  LET cart == getCartOutcome(State)
      orders == getOrdersOutcome(State)
      all == getAllOrdersOutcome(State)
  IN  /\ cart.state = State /\ orders.state = State /\ all.state = State
      /\ currentUser = Null => ~cart.ok /\ ~orders.ok /\ ~all.ok
      /\ currentUser # Null =>
            /\ cart.ok /\ orders.ok
            /\ IF CartsOf(State, currentUser.id) = {}
               THEN cart.data = Null
               ELSE cart.data \in {mockCarts[i] : i \in CartsOf(State, currentUser.id)}
            /\ Len(orders.data) = Cardinality(OrdersOf(State, currentUser.id))
            /\ \A j \in 1..Len(orders.data) :
                  /\ orders.data[j].userId = currentUser.id
                  /\ \E k \in 1..Len(mockOrders) : mockOrders[k] = orders.data[j]
            /\ \A i, j \in 1..Len(orders.data) : i # j => orders.data[i] # orders.data[j]
      /\ IF CallerIsAdmin
         THEN all.ok /\ all.data = mockOrders
         ELSE ~all.ok /\ all.error = "Unauthorized"

\* the customer is logged in and has neither cart nor order, while the admin
\* has both: the customer's getCart gives null, getOrders the empty list, and
\* getAllOrders is refused
C12_Witness ==
  /\ CallerIsCustomer
  /\ CartsOf(State, "admin-1") # {} /\ OrdersOf(State, "admin-1") # {}
  /\ getCartOutcome(State).data = Null
  /\ getOrdersOutcome(State).data = <<>>
  /\ getAllOrdersOutcome(State).error = "Unauthorized"

(***************************************************************************)
(* C13.  In every reachable state the cart list holds at most one cart per  *)
(* user id.  A step adds a cart only as the addToCart of a logged-in user   *)
(* who has none (getCart gives that user null before it), and it adds one   *)
(* cart, of that user; once a user's cart is gone (converted to an order),  *)
(* getCart gives that user null again.                                      *)
(***************************************************************************)
OneCartPerUser(s) ==
  \A i, j \in 1..Len(s.mockCarts) :
    s.mockCarts[i].userId = s.mockCarts[j].userId => i = j

CartIdsIn(carts) == {carts[i].id : i \in 1..Len(carts)}

C13_CartStep ==
  /\ CartIdsIn(mockCarts') \ CartIdsIn(mockCarts) # {} =>
        /\ currentUser # Null
        /\ CartsOf(State, currentUser.id) = {}
        /\ getCartOutcome(State).ok /\ getCartOutcome(State).data = Null
        /\ \E id \in ProductIds, q \in Quantities : addToCart([productId |-> id, quantity |-> q])
        /\ Len(mockCarts') = Len(mockCarts) + 1
        /\ mockCarts'[Len(mockCarts')].userId = currentUser.id
  /\ \A c \in 1..Len(mockCarts) :
        mockCarts[c].id \notin CartIdsIn(mockCarts') =>
          /\ \E id \in CartIds, a \in Addresses :
                createOrder([cartId |-> id, shippingAddress |-> a])
          /\ getCartOutcome([State' EXCEPT !.currentUser = UserWithId(mockCarts[c].userId)]).data
               = Null

C13_OneCartPerUser ==
  /\ []OneCartPerUser(State)
  /\ [][C13_CartStep]_vars

\* the customer has an order and a cart again: the second cart was created
\* by the first addToCart after the conversion of the first
C13_Witness ==
  /\ OrdersOf(State, "customer-1") # {}
  /\ \E i \in CartsOf(State, "customer-1") : mockCarts[i].id = generateId("cart", 2)

(***************************************************************************)
(* C14.  In every reachable state, and in the state every addToCart and     *)
(* removeFromCart leaves, every stored cart's totalAmount is the sum over   *)
(* its lines of the line's embedded product price times its quantity, and   *)
(* no two lines of a cart have the same productId; also when an admin has   *)
(* changed or deleted the product in the catalog in between.                *)
(***************************************************************************)
CartsConsistent(s) ==
  \A i \in 1..Len(s.mockCarts) :
    LET cart == s.mockCarts[i]
    IN  /\ cart.totalAmount = LinesSum(cart.items, 1..Len(cart.items))
        /\ \A j, k \in 1..Len(cart.items) :
              cart.items[j].productId = cart.items[k].productId => j = k

C14_CartTotals ==
  /\ CartsConsistent(State)
  /\ \A id \in ProductIds, q \in AnyQuantity :
        CartsConsistent(addToCartOutcome(State, [productId |-> id, quantity |-> q]).state)
  /\ \A id \in ItemIds : CartsConsistent(removeFromCartOutcome(State, id).state)

\* a cart with two lines whose first product has since been repriced in the
\* catalog: the total still uses the embedded price 12.99
C14_Witness ==
  \E i \in 1..Len(mockCarts) :
    /\ Len(mockCarts[i].items) = 2
    /\ mockCarts[i].items[1].product.price = 1299
    /\ \E p \in 1..Len(mockProducts) :
          mockProducts[p].id = mockCarts[i].items[1].productId /\ mockProducts[p].price = 999
    /\ mockCarts[i].totalAmount = 1299 * mockCarts[i].items[1].quantity
                                  + 500 * mockCarts[i].items[2].quantity

(***************************************************************************)
(* C15.  No step removes an order or changes a stored order's id, userId,   *)
(* items, totalAmount or shippingAddress; a step changes an order's status  *)
(* only as an updateOrderStatus of that order while an admin is the current *)
(* user.                                                                    *)
(***************************************************************************)
C15_OrderStep ==
  /\ Len(mockOrders') >= Len(mockOrders)
  /\ \A k \in 1..Len(mockOrders) :
        LET old == mockOrders[k]
            new == mockOrders'[k]
        IN  /\ new.id = old.id /\ new.userId = old.userId
            /\ new.items = old.items /\ new.totalAmount = old.totalAmount
            /\ new.shippingAddress = old.shippingAddress
            /\ new.status # old.status =>
                  /\ CallerIsAdmin
                  /\ updateOrderStatus(old.id, new.status)

C16_OrderUsesCurrentPrice ==
  \A c \in 1..Len(mockCarts), a \in Addresses :
    LET cart == mockCarts[c]
        o == createOrderOutcome(State, [cartId |-> cart.id, shippingAddress |-> a])
    IN  o.ok =>
          \A j \in 1..Len(cart.items), p \in 1..Len(mockProducts) :
            mockProducts[p].id = cart.items[j].productId =>
              o.data.items[j].price = mockProducts[p].price

(***************************************************************************)
(* C17.  The product createProduct returns has inStock = (stockQuantity >   *)
(* 0); after an updateProduct that supplies a stockQuantity (0 included)    *)
(* the stored product has inStock = (stockQuantity > 0); an updateProduct   *)
(* that supplies none leaves both fields as they were.                      *)
(***************************************************************************)
C17_InStockFollowsStock ==
  /\ \A pd \in NewProducts :
        LET o == createProductOutcome(State, pd)
        IN  o.ok => o.data.inStock = (o.data.stockQuantity > 0)
  /\ \A p \in 1..Len(mockProducts), pd \in ProductUpdates :
        LET o == updateProductOutcome(State, mockProducts[p].id, pd)
            stored == o.state.mockProducts[p]
        IN  o.ok =>
              IF "stockQuantity" \in DOMAIN pd
              THEN stored.inStock = (stored.stockQuantity > 0)
              ELSE /\ stored.inStock = mockProducts[p].inStock
                   /\ stored.stockQuantity = mockProducts[p].stockQuantity

(***************************************************************************)
(* C20.  Every line of every stored cart has a quantity of at least 1, in   *)
(* every reachable state and in the state any addToCart leaves, for every   *)
(* quantity a caller may pass.                                              *)
(***************************************************************************)
QuantitiesPositive(s) ==
  \A i \in 1..Len(s.mockCarts) : \A j \in 1..Len(s.mockCarts[i].items) :
    s.mockCarts[i].items[j].quantity >= 1

C20_QuantityAtLeastOne ==
  /\ QuantitiesPositive(State)
  /\ \A id \in ProductIds, q \in AnyQuantity :
        QuantitiesPositive(addToCartOutcome(State, [productId |-> id, quantity |-> q]).state)

(***************************************************************************)
(* Calls in flight, as the claims speak of them                             *)
(***************************************************************************)
\* the outcomes of the calls in flight, in the order their bodies run, when
\* they run on from state s
RECURSIVE OutcomesOf(_, _)
OutcomesOf(s, queue) ==
  IF queue = <<>> THEN <<>>
  ELSE LET o == OutcomeOf(s, Head(queue))
       IN  <<o>> \o OutcomesOf(o.state, Tail(queue))

\* the module state the calls in flight leave
LeftBy(s, queue) ==
  IF queue = <<>> THEN s ELSE OutcomesOf(s, queue)[Len(queue)].state

\* the results two overlapping calls can have: their timers fire in the
\* order the calls were made and each body runs to its end
ResultsOf(s, queue) == {LeftBy(s, queue)}

\* two addToCart calls for the same catalog product wait in their delays and
\* a user is logged in
TwoAddsInFlight ==
  /\ currentUser # Null
  /\ Len(inFlight) = 2
  /\ inFlight[1].op = "addToCart" /\ inFlight[2].op = "addToCart"
  /\ inFlight[1].request.productId = inFlight[2].request.productId
  /\ InCatalog(inFlight[1].request.productId)

\* the quantity the current user's cart holds of a product in state s
QuantityOf(s, productId) ==
  LET carts == CartsOf(s, s.currentUser.id)
      cart == s.mockCarts[CHOOSE i \in carts : TRUE]
  IN  IF carts = {} \/ LinesOf(cart, productId) = {} THEN 0
      ELSE cart.items[CHOOSE j \in LinesOf(cart, productId) : TRUE].quantity

\* in state `left` the current user has one cart, with one line for the
\* product, holding `quantity`
MergedLine(left, productId, quantity) ==
  /\ Cardinality(CartsOf(left, left.currentUser.id)) = 1
  /\ \A i \in CartsOf(left, left.currentUser.id) :
        /\ Cardinality(LinesOf(left.mockCarts[i], productId)) = 1
        /\ \A j \in LinesOf(left.mockCarts[i], productId) :
              left.mockCarts[i].items[j].quantity = quantity

(***************************************************************************)
(* C18 as claimed.  Two addToCart calls for the same product that are in    *)
(* flight at the same time can interleave their accesses: the second call's *)
(* read of the cart can come before the first call's write-back, so a       *)
(* result is possible in which the line does not hold both quantities.      *)
(***************************************************************************)
C18_WriteFallsBetween ==
  TwoAddsInFlight =>
    \E left \in ResultsOf(State, inFlight) :
      ~MergedLine(left, inFlight[1].request.productId,
                  QuantityOf(State, inFlight[1].request.productId)
                    + inFlight[1].request.quantity + inFlight[2].request.quantity)

(***************************************************************************)
(* C18 as amended.  Calls in flight at the same time overlap only in their  *)
(* delays: every step that changes the module state is the whole body of    *)
(* the oldest call in flight, applied to the state of that moment, so no    *)
(* other call's write falls between a call's read and its write-back; two   *)
(* addToCart calls for the same product made before the first resolves      *)
(* leave one line that holds both quantities on top of what it held.        *)
(***************************************************************************)
C18_BodyStep ==
  Shared(State') # Shared(State) =>
    /\ inFlight # <<>>
    /\ State' = OutcomeOf(State, Head(inFlight)).state
    /\ inFlight' = Tail(inFlight)

C18_BothAddsCount ==
  TwoAddsInFlight =>
    /\ \A k \in 1..2 : OutcomesOf(State, inFlight)[k].ok
    /\ MergedLine(LeftBy(State, inFlight), inFlight[1].request.productId,
                  QuantityOf(State, inFlight[1].request.productId)
                    + inFlight[1].request.quantity + inFlight[2].request.quantity)

C18_BodiesRunWhole ==
  /\ [][C18_BodyStep]_vars
  /\ []C18_BothAddsCount

\* the customer, who has no cart yet, has made two addToCart calls for prod-1
\* and neither has resolved
C18_Witness ==
  /\ TwoAddsInFlight
  /\ CallerIsCustomer
  /\ CartsOf(State, currentUser.id) = {}
  /\ inFlight[1].request.productId = "prod-1"

(***************************************************************************)
(* C19.  The conversion of a cart to an order is one step: a step adds an   *)
(* order exactly when it removes a cart, it adds one order and removes one  *)
(* cart, and the order holds that cart's lines and total; so no call runs   *)
(* in a state with the order appended and the cart still there, or the      *)
(* cart gone and the order missing.  Two createOrder calls for the same     *)
(* cartId that are in flight together produce at most one order, and        *)
(* exactly one when a user is logged in and the cart has lines.             *)
(***************************************************************************)
C19_ConversionStep ==
  LET gone == {c \in 1..Len(mockCarts) : mockCarts[c].id \notin CartIdsIn(mockCarts')}
      order == mockOrders'[Len(mockOrders')]
  IN  /\ Len(mockOrders') \in {Len(mockOrders), Len(mockOrders) + 1}
      /\ Len(mockOrders') = Len(mockOrders) + 1 <=> Cardinality(gone) = 1
      /\ Len(mockOrders') = Len(mockOrders) => gone = {}
      /\ \A c \in gone :
            /\ Len(order.items) = Len(mockCarts[c].items)
            /\ \A j \in 1..Len(order.items) :
                  /\ order.items[j].productId = mockCarts[c].items[j].productId
                  /\ order.items[j].quantity = mockCarts[c].items[j].quantity
            /\ order.totalAmount = mockCarts[c].totalAmount

TwoOrdersInFlight ==
  /\ Len(inFlight) = 2
  /\ inFlight[1].op = "createOrder" /\ inFlight[2].op = "createOrder"
  /\ inFlight[1].request.cartId = inFlight[2].request.cartId

C19_OneOrderPerCart ==
  TwoOrdersInFlight =>
    LET outcomes == OutcomesOf(State, inFlight)
        left == LeftBy(State, inFlight)
        convertible ==
          /\ currentUser # Null
          /\ \E c \in 1..Len(mockCarts) :
                mockCarts[c].id = inFlight[1].request.cartId /\ Len(mockCarts[c].items) > 0
    IN  /\ ~(outcomes[1].ok /\ outcomes[2].ok)
        /\ Len(left.mockOrders) = Len(mockOrders) + (IF convertible THEN 1 ELSE 0)
        /\ convertible =>
              /\ outcomes[1].ok
              /\ outcomes[2].error = "Cart not found or empty"
              /\ \A i \in 1..Len(left.mockCarts) :
                    left.mockCarts[i].id # inFlight[1].request.cartId

C19_ConversionAtomic ==
  /\ [][C19_ConversionStep]_vars
  /\ []C19_OneOrderPerCart

\* a logged-in user's cart has a line and two createOrder calls for it are in
\* flight
C19_Witness ==
  /\ TwoOrdersInFlight
  /\ currentUser # Null
  /\ \E c \in CartsOf(State, currentUser.id) :
        mockCarts[c].id = inFlight[1].request.cartId /\ Len(mockCarts[c].items) > 0

(***************************************************************************)
(* C26.  createOrder succeeds only if the cart found under cartId belongs   *)
(* to the current user: the order's userId is then the cart's userId, and a *)
(* createOrder on another user's cart leaves that cart in place.            *)
(***************************************************************************)
C26_OnlyOwnCart ==
  \A c \in 1..Len(mockCarts), a \in Addresses :
    LET cart == mockCarts[c]
        o == createOrderOutcome(State, [cartId |-> cart.id, shippingAddress |-> a])
    IN  /\ o.ok => /\ cart.userId = currentUser.id
                   /\ o.data.userId = cart.userId
        /\ (currentUser # Null /\ cart.userId # currentUser.id) =>
              /\ ~o.ok
              /\ o.state.mockCarts = mockCarts

(***************************************************************************)
(* C28.  A call acts for the user who was current when it was made: when    *)
(* the body of a cart, order or admin call runs, it succeeds or fails, and  *)
(* leaves the carts and the orders, as it would with the issuing user as    *)
(* the current user, also when a login or logout has completed while the    *)
(* call waited in its delay.                                                *)
(***************************************************************************)
C28_ActsForIssuer ==
  ( /\ inFlight # <<>>
    /\ Head(inFlight).op \notin {"login", "logout"}
    /\ Head(inFlight).issuer # Null ) =>
    LET call == Head(inFlight)
        now == OutcomeOf(State, call)
        asIssuer == OutcomeOf([State EXCEPT !.currentUser = call.issuer], call)
    IN  /\ now.ok = asIssuer.ok
        /\ now.state.mockCarts = asIssuer.state.mockCarts
        /\ now.state.mockOrders = asIssuer.state.mockOrders

(***************************************************************************)
(* The page, as the claims speak of it                                      *)
(***************************************************************************)
\* the auth states a visitor can be in: anonymous, or one of the seeded users
AuthStates ==
  {[isAuthenticated |-> FALSE, user |-> Null, loading |-> FALSE]}
    \cup {[isAuthenticated |-> TRUE, user |-> SeedUsers[i], loading |-> FALSE] :
            i \in 1..Len(SeedUsers)}

\* the home of a role
HomeOf(role) == IF role = "admin" THEN "/admin" ELSE "/"

\* the requiredRole props: none, and the two roles
RequiredRoles == {"", "customer", "admin"}

\* the fallbackPath props: none (as everywhere in AppRouter), and a path
FallbackPaths == {"", "/404"}

RECURSIVE Follow(_, _, _, _)
Follow(auth, loc, n, followed) ==
  LET el == AppRouter(auth, loc)
  IN  IF el.type = "Navigate" /\ n > 0
      THEN Follow(auth, [pathname |-> el.to, state |-> el.state], n - 1, followed + 1)
      ELSE [element |-> el, location |-> loc, redirects |-> followed]

\* a visit has settled properly: a page is rendered, not /login for an
\* authenticated user and not a protected page for an anonymous one
SettledFor(auth, end) ==
  /\ end.element.type = "page"
  /\ auth.isAuthenticated => end.location.pathname # "/login"
  /\ ~auth.isAuthenticated => end.location.pathname \notin CustomerRoutes \cup AdminRoutes

\* C30: route guarding settles.  For every auth state and every start route,
\* following the redirects reaches a rendered page after at most two
\* redirects; an authenticated user does not end on /login, an anonymous one
\* not on a protected page; and on the running page no more than two
\* redirects follow a load, a link or a change of the auth state.
C30_GuardingSettles ==
  /\ \A auth \in AuthStates, path \in StartRoutes :
        SettledFor(auth, Follow(auth, [pathname |-> path, state |-> Null], 2, 0))
  /\ redirects <= 2
  /\ ~authLoading =>
        /\ SettledFor(useAuth(Page), Follow(useAuth(Page), location, 2 - redirects, 0))
        /\ Rendered.type = "page" =>
             SettledFor(useAuth(Page), [element |-> Rendered, location |-> location])

\* an anonymous visitor who started on a protected route sees the login form
C30_Witness ==
  /\ authUser = Null
  /\ ~authLoading
  /\ redirects = 1
  /\ location.pathname = "/login"
  /\ location.state # Null
  /\ Rendered = Rendering("LoginPage")

\* the entries of the two keys are absent
KeysRemoved(storage) == DOMAIN storage \cap StorageKeys = {}

C27_SessionsAgree ==
  isAuthenticated(Page) =>
    /\ currentUser = authUser
    /\ getCartOutcome(State).error # "User not authenticated"

\* the functions of CartProvider that await a call
CartOps == {"refreshCart", "addToCart", "removeFromCart"}

\* the provider is asked to add while nobody, or an admin, is signed in
NotACustomer(pg) == ~isAuthenticated(pg) \/ pg.authUser.role # "customer"

C22_GuardStep ==
  ( /\ NotACustomer(Page)
    /\ toast' = Toast("error", "Please sign in as a customer to add items to cart", "")
    /\ toast' # toast ) =>
      /\ inFlight' = inFlight
      /\ mockCarts' = mockCarts
      /\ providerCart' = providerCart

C22_ResetStep ==
  (authUser' # authUser /\ NotACustomer(Page')) => providerCart' = Null

C22_AddIsRefused ==
  NotACustomer(Page) =>
    \A id \in ProductIds, q \in Quantities :
      LET r == addToCartStarted(Page, State, id, q)
      IN  /\ r.calls = <<>>
          /\ r.page.toast.kind = "error"
          /\ [r.page EXCEPT !.toast = toast] = Page

\* C22: CartProvider.addToCart, when the auth context is not authenticated or
\* the user is not a customer, makes no call to the mock cart API, leaves the
\* provider's cart and the mock cart list as they are and only reports an
\* error; and whenever the auth context becomes unauthenticated or
\* non-customer, the provider's cart is reset to null.
C22_CustomersOnly ==
  /\ []C22_AddIsRefused
  /\ [][C22_GuardStep /\ C22_ResetStep]_vars

\* an admin was refused while the customer's cart is stored
C22_Witness ==
  /\ authUser # Null
  /\ authUser.role = "admin"
  /\ toast = Toast("error", "Please sign in as a customer to add items to cart", "")
  /\ mockCarts # <<>>
  /\ providerCart = Null

\* an operation of CartProvider is in flight
CartOpInFlight(calls) == \E i \in 1..Len(calls) : calls[i].caller \in CartOps

\* the stored cart of the mock layer's current user, null when there is none
StoredCart(s) ==
  IF s.currentUser = Null \/ CartOfCurrentUser(s, s.mockCarts) = 0 THEN Null
  ELSE s.mockCarts[CartOfCurrentUser(s, s.mockCarts)]

C29_LastCompletes ==
  (CartOpInFlight(inFlight) /\ ~CartOpInFlight(inFlight')) =>
     providerCart' = StoredCart(State')

\* C29: CartProvider's loading flag is true whenever one of its operations is
\* in flight, also when several were started before the first resolved, and
\* false once all have completed; after the last one completes the provider's
\* cart is the mock layer's stored cart of the current user.
C29_LoadingCoversInFlight ==
  /\ [](CartOpInFlight(inFlight) <=> cartLoading)
  /\ [][C29_LastCompletes]_vars

\* the storage events a hook can receive for JSON texts, removals and clear()
StorageEventsSeen ==
  {[key |-> k, newValue |-> nv] :
     k \in StorageKeys \cup {OtherKey, ""},
     nv \in {Null} \cup {Str(JSONstringify(v)) : v \in JsonValues}}

Executing == api.pc # "idle"

C23_Bounded ==
  /\ api.calls <= api.retries + 1
  /\ Executing => (api.state.loading /\ api.state.error = Null)
  /\ \A data \in ApiData :
       LET a == apiResolved(api, data)
       IN  /\ a.state = [data |-> data, loading |-> FALSE, error |-> Null]
           /\ a.pc = "idle"
           /\ a.returned = data
           /\ a.calls = api.calls
  /\ \A error \in ApiFailures :
       LET a == apiRejected(api, error)
       IN  IF api.attempt < api.retries
           THEN a.state = api.state /\ a.pc = "retryDelay"
           ELSE /\ a.state = [data |-> Null, loading |-> FALSE,
                              error |-> Str(errorMessage(error))]
                /\ a.pc = "idle"
                /\ a.returned = Null

C23_CallStep ==
  /\ (api'.calls > api.calls /\ Executing) => api.pc = "retryDelay"
  /\ (Executing /\ api'.pc = "idle" /\ api'.state.error # Null) =>
        api.calls = api.retries + 1
  /\ (Executing /\ api'.pc = "idle") => api'.calls = api.calls

====
